---- MODULE Spec2Model ----
(***************************************************************************)
(* Codify-Backend: the execution and judging pipeline.                     *)
(*                                                                         *)
(*   routes/submissions.js  SubmissionSemaphore, POST /submit,             *)
(*                          processSubmissionAsync, runTestCases,          *)
(*                          updateStatistics                               *)
(*   routes/index.js        Semaphore, POST /compile                       *)
(*   routes/problems.js     DELETE /:id (cascade delete of submissions)    *)
(*                                                                         *)
(* Node.js runs one callback at a time: an action of this module is one    *)
(* run-to-completion turn, from one await to the next.                     *)
(***************************************************************************)
EXTENDS Integers, Sequences, FiniteSets, TLC

\* ------------------------------------------------------------------ bounds
\* largest configured maximum of the admission controller under test
MaxN == 2
\* number of callers of the admission controller under test
NumCallers == 3

\* number of concurrent POST /compile requests
NumRequests == 2
\* number of POST /submit requests for the one standalone problem
NumSubs == 2
\* number of test cases of the problem
NumTestCases == 1
\* number of removals of temp files (unlink, rm) that the filesystem refuses
MaxRmFaults == 1

Callers == 1..NumCallers
Requests == 1..NumRequests
Subs == 1..NumSubs

VARIABLES
    ctl,        \* the admission controller under test: [max, current, queue]
    cpc,        \* position of each caller of ctl
    arrivals,   \* history: the callers that had to wait, in arrival order
    viaQueue,   \* history: the caller's present grant was handed over by release()
    compilationSemaphore,   \* routes/index.js: the controller of POST /compile
    rpc,        \* position of each /compile request in its handler
    rin,        \* the body of each /compile request (its kind)
    rres,       \* the HTTP status sent for each /compile request, 0 when none yet
    rws,        \* the temp resources of each /compile request that exist on disk
    rclean,     \* position of the cleanup() that the success path does not await
    rout,       \* how the command of each /compile request ended, "none" before
    racq,       \* history: acquire() calls of each /compile request
    rrel,       \* history: release() calls of each /compile request
    rrm,        \* history: calls of cleanup() of each /compile request
    submissionSemaphore,    \* routes/submissions.js: the controller of judging
    hpc,        \* position of each POST /submit request in its handler
    wpc,        \* position of each processSubmissionAsync worker
    lang,       \* runTestCases: the language kind of the submission it judges
    db,         \* the Submission collection: the persisted record of each submission
    ack,        \* the response of each POST /submit request
    problem,    \* the Problem document in the database
    pdel,       \* position of the DELETE /api/problems/:id handler
    ploc,       \* the Problem document a worker has loaded in updateStatistics
    hi,         \* runTestCases: the index of the test case at hand
    results,    \* runTestCases: the results array
    hout,       \* runTestCases: how the try block was left, "return" or "throw"
    hfiles,     \* runTestCases: the source, executable and directory that exist
    hinputs,    \* runTestCases: the per-test-case input files that exist
    attempt,    \* history: how the compile step and each run step of a worker ended
    sacq,       \* history: acquire() calls of each worker
    srel,       \* history: release() calls of each worker
    everRunning,    \* history: the persisted status has been running
    termWrites, \* history: writes of a terminal status to the record
    exitPath,   \* history: the path on which each worker left processSubmissionAsync
    rmFaults,   \* the number of refused removals of temp files so far
    contest,    \* the Contest document in the database
    upc,        \* position of each updateStatistics call for a contest submission
    usub,       \* the submission each updateStatistics call was given
    uloc,       \* the Contest document a call has loaded and changed
    applied,    \* history: the submissions whose statistics update was saved
    edge,       \* the middleware in front of /compile and the requests of a burst
    arg,        \* the arguments of the computation under test
    ret         \* its result, <<>> before it is made

semVars == <<ctl, cpc, arrivals, viaQueue>>
compVars == <<compilationSemaphore, rpc, rin, rres, rws, rclean, rout, racq, rrel, rrm>>

judgeVars == <<submissionSemaphore, hpc, wpc, lang, db, ack, problem, pdel, ploc,
               hi, results, hout, hfiles, hinputs, attempt, sacq, srel, everRunning,
               termWrites, exitPath>>

calcVars == <<arg, ret>>

contestVars == <<contest, upc, usub, uloc, applied>>

burstVars == <<edge>>

vars == <<ctl, cpc, arrivals, viaQueue,
          compilationSemaphore, rpc, rin, rres, rws, rclean, rout, racq, rrel, rrm,
          submissionSemaphore, hpc, wpc, lang, db, ack, problem, pdel, ploc,
          hi, results, hout, hfiles, hinputs, attempt, sacq, srel, everRunning,
          termWrites, exitPath, rmFaults, contest, upc, usub, uloc, applied,
          edge, arg, ret>>

\* ------------------------------------------------- the admission controller
\* constructor(max)
NewSemaphore(max) == [max |-> max, current |-> 0, queue |-> <<>>]

\* a plausible bug of acquire(): the limit is not tested
acquire_NoLimit(sem, who) ==
    [sem |-> [sem EXCEPT !.current = @ + 1], resolved |-> TRUE]

\* a plausible bug of acquire(): the test is off by one, the last free slot
\* is never taken
acquire_OffByOne(sem, who) ==
    IF sem.current + 1 < sem.max
    THEN [sem |-> [sem EXCEPT !.current = @ + 1], resolved |-> TRUE]
    ELSE [sem |-> [sem EXCEPT !.queue = Append(@, who)], resolved |-> FALSE]

\* acquire(): take a slot when one is free (the promise is resolved at once),
\* otherwise queue the caller's resolve callback.
acquire(sem, who) ==
    IF sem.current < sem.max
    THEN [sem |-> [sem EXCEPT !.current = @ + 1], resolved |-> TRUE]
    ELSE [sem |-> [sem EXCEPT !.queue = Append(@, who)], resolved |-> FALSE]

\* a plausible bug of release(): pop() instead of shift()
release_LIFO(sem) ==
    LET dec == [sem EXCEPT !.current = @ - 1]
    IN  IF Len(dec.queue) > 0
        THEN [sem |-> [dec EXCEPT !.current = @ + 1,
                                  !.queue = SubSeq(@, 1, Len(@) - 1)],
              woken |-> {dec.queue[Len(dec.queue)]}]
        ELSE [sem |-> dec, woken |-> {}]

\* a plausible bug of release(): the slot is freed but no waiter is resolved
release_NoWake(sem) ==
    [sem |-> [sem EXCEPT !.current = @ - 1], woken |-> {}]

\* a plausible bug of release(): the first waiter is resolved but the slot
\* is not taken again for it
release_FreeThenWake(sem) ==
    LET dec == [sem EXCEPT !.current = @ - 1]
    IN  IF Len(dec.queue) > 0
        THEN [sem |-> [dec EXCEPT !.queue = Tail(@)], woken |-> {Head(dec.queue)}]
        ELSE [sem |-> dec, woken |-> {}]

\* release(): free the slot; when callers wait, take the slot again for the
\* first of them and resolve its promise.
release(sem) ==
    LET dec == [sem EXCEPT !.current = @ - 1]
    IN  IF Len(dec.queue) > 0
        THEN [sem |-> [dec EXCEPT !.current = @ + 1, !.queue = Tail(@)],
              woken |-> {Head(dec.queue)}]
        ELSE [sem |-> dec, woken |-> {}]

\* ------------------------------------- callers of one admission controller
SemVarsInit ==
    /\ cpc = [c \in Callers |-> "idle"]
    /\ arrivals = <<>>
    /\ viaQueue = [c \in Callers |-> FALSE]

CompVarsInit ==
    /\ rpc = [r \in Requests |-> "new"]
    /\ rin = [r \in Requests |-> "none"]
    /\ rres = [r \in Requests |-> 0]
    /\ rws = [r \in Requests |-> {}]
    /\ rclean = [r \in Requests |-> "idle"]
    /\ rout = [r \in Requests |-> "none"]
    /\ racq = [r \in Requests |-> 0]
    /\ rrel = [r \in Requests |-> 0]
    /\ rrm = [r \in Requests |-> 0]

\* the Problem document: its counters at their defaults, and the number of
\* its test cases
NewProblem(n) ==
    [exists |-> TRUE, totalSubmissions |-> 0, successfulSubmissions |-> 0,
     testCases |-> n]

\* no Submission record
Absent == [status |-> "absent", passedTestCases |-> 0, score |-> 0,
           testCaseResults |-> <<>>, compilationOutput |-> ""]

NoResponse == [code |-> 0, status |-> "none", error |-> "none"]

\* no computation under test
CalcVarsInit == arg = <<>> /\ ret = <<>>

\* number of updateStatistics calls for contest submissions of the one
\* participant on the one contest problem
NumUpdates == 3
\* the points of the contest problem
ContestPoints == 2

Updates == 1..NumUpdates

\* a participant as addParticipant makes it (models/Contest.js): no score, no
\* submission, no problem attempted
NewParticipant == [score |-> 0, submissions |-> 0, problemsAttempted |-> <<>>]

\* a Contest with its one problem and its participants (none, or the one
\* the submissions are of), all counters at their defaults
NewContest(participants) ==
    [analytics |-> [totalSubmissions |-> 0, successfulSubmissions |-> 0],
     participants |-> participants,
     problem |-> [attemptCount |-> 0, solvedCount |-> 0]]

NoSubmission == [status |-> "none", score |-> 0]

ContestVarsInit ==
    /\ contest = NewContest(<<NewParticipant>>)
    /\ upc = [u \in Updates |-> "new"]
    /\ usub = [u \in Updates |-> NoSubmission]
    /\ uloc = [u \in Updates |-> NewContest(<<>>)]
    /\ applied = <<>>

\* the middleware of /compile before any request: the rate limiter has
\* counted no hit in its window, the queue has no active and no waiting
\* request, nothing was answered
NewEdge == [arrived |-> 0, hits |-> 0, resets |-> 0, active |-> 0, queued |-> 0,
            ok |-> 0, limited |-> 0, refused |-> 0]

BurstVarsInit == edge = NewEdge

\* runTestCases has not been called: no compile step, no run step, no save
\* of a verdict; no process of the attempt is in flight (an execAsync whose
\* promise is not yet settled), no run step was started, and
\* updateStatistics has read no counter (-1)
NoAttempt == [compile |-> "none", runs |-> <<>>, verdict |-> "none",
              flying |-> 0, starts |-> <<>>, read |-> -1]

JudgeVarsInit ==
    /\ hpc = [s \in Subs |-> "new"]
    /\ wpc = [s \in Subs |-> "none"]
    /\ lang = [s \in Subs |-> "none"]
    /\ db = [s \in Subs |-> Absent]
    /\ ack = [s \in Subs |-> NoResponse]
    /\ problem = NewProblem(NumTestCases)
    /\ pdel = "none"
    /\ ploc = [s \in Subs |-> [totalSubmissions |-> 0, successfulSubmissions |-> 0]]
    /\ hi = [s \in Subs |-> 0]
    /\ results = [s \in Subs |-> <<>>]
    /\ hout = [s \in Subs |-> "none"]
    /\ hfiles = [s \in Subs |-> {}]
    /\ hinputs = [s \in Subs |-> {}]
    /\ attempt = [s \in Subs |-> NoAttempt]
    /\ sacq = [s \in Subs |-> 0]
    /\ srel = [s \in Subs |-> 0]
    /\ everRunning = [s \in Subs |-> FALSE]
    /\ termWrites = [s \in Subs |-> 0]
    /\ exitPath = [s \in Subs |-> "none"]

SemInit ==
    /\ rmFaults = 0
    /\ CalcVarsInit
    /\ ctl \in {NewSemaphore(n) : n \in 1..MaxN}
    /\ SemVarsInit
    /\ compilationSemaphore = NewSemaphore(1)
    /\ CompVarsInit
    /\ submissionSemaphore = NewSemaphore(1)
    /\ JudgeVarsInit
    /\ ContestVarsInit
    /\ BurstVarsInit

\* await sem.acquire(): the executor of the promise runs in the caller's turn
CallAcquire(c) ==
    /\ cpc[c] = "idle"
    /\ LET r == acquire(ctl, c)
       IN  /\ ctl' = r.sem
           /\ cpc' = [cpc EXCEPT ![c] = IF r.resolved THEN "granted" ELSE "waiting"]
           /\ arrivals' = IF r.resolved THEN arrivals ELSE Append(arrivals, c)
    /\ UNCHANGED <<viaQueue, compVars, judgeVars, calcVars, contestVars, burstVars, rmFaults>>

\* the continuation after the await: acquire() has returned
ReturnFromAcquire(c) ==
    /\ cpc[c] = "granted"
    /\ cpc' = [cpc EXCEPT ![c] = "holding"]
    /\ UNCHANGED <<ctl, arrivals, viaQueue, compVars, judgeVars, calcVars, contestVars, burstVars, rmFaults>>

\* sem.release() by a caller that holds a slot
CallRelease(c) ==
    /\ cpc[c] = "holding"
    /\ LET r == release(ctl)
       IN  /\ ctl' = r.sem
           /\ cpc' = [d \in Callers |->
                        IF d = c THEN "idle"
                        ELSE IF d \in r.woken THEN "granted" ELSE cpc[d]]
           /\ arrivals' = SelectSeq(arrivals, LAMBDA e : e \notin r.woken)
           /\ viaQueue' = [d \in Callers |->
                        IF d = c THEN FALSE
                        ELSE IF d \in r.woken THEN TRUE ELSE viaQueue[d]]
    /\ UNCHANGED <<compVars, judgeVars, calcVars, contestVars, burstVars, rmFaults>>

SemNext == \E c \in Callers : CallAcquire(c) \/ ReturnFromAcquire(c) \/ CallRelease(c)

SemSpec == SemInit /\ [][SemNext]_vars

\* every caller that holds a slot eventually calls release(), and the
\* continuation of a resolved promise eventually runs (the microtask queue)
SemFairSpec ==
    /\ SemSpec
    /\ \A c \in Callers : WF_vars(ReturnFromAcquire(c)) /\ WF_vars(CallRelease(c))

\* ------------------------------------------------------ POST /compile
\* what a request body can be, as far as the handler tells bodies apart:
\* code or lang missing; lang not a string (lang.toLowerCase throws); a
\* language the switch does not know; an interpreted language; java; c or cpp
RequestKinds == {"missing", "badtype", "unsupported", "interp", "java", "c"}

\* how execAsync(command) ends: resolved, or rejected with code ENOENT,
\* killed by the timeout, or any other failure (compile or runtime error)
ExecOutcomes == {"ok", "enoent", "timeout", "error"}

CompInit ==
    /\ rmFaults = 0
    /\ CalcVarsInit
    /\ compilationSemaphore \in {NewSemaphore(n) : n \in 1..MaxN}
    /\ CompVarsInit
    /\ ctl = NewSemaphore(1)
    /\ SemVarsInit
    /\ submissionSemaphore = NewSemaphore(1)
    /\ JudgeVarsInit
    /\ ContestVarsInit
    /\ BurstVarsInit

\* a plausible bug of the handler: the rejections return before the
\* try/finally that releases the slot
CompileExit_RejectKeepsSlot(r, status) ==
    IF status = 400
    THEN /\ rres' = [rres EXCEPT ![r] = status]
         /\ rpc' = [rpc EXCEPT ![r] = "done"]
         /\ UNCHANGED <<compilationSemaphore, rrel>>
    ELSE LET rel == release(compilationSemaphore)
         IN  /\ rres' = [rres EXCEPT ![r] = status]
             /\ compilationSemaphore' = rel.sem
             /\ rrel' = [rrel EXCEPT ![r] = @ + 1]
             /\ rpc' = [q \in Requests |->
                          IF q = r THEN "done"
                          ELSE IF q \in rel.woken THEN "granted" ELSE rpc[q]]

\* every way out of the handler: the response is sent (res.status(..).json),
\* then the finally block releases the slot, which resolves the first waiter
CompileExit(r, status) ==
    LET rel == release(compilationSemaphore)
    IN  /\ rres' = [rres EXCEPT ![r] = status]
        /\ compilationSemaphore' = rel.sem
        /\ rrel' = [rrel EXCEPT ![r] = @ + 1]
        /\ rpc' = [q \in Requests |->
                     IF q = r THEN "done"
                     ELSE IF q \in rel.woken THEN "granted" ELSE rpc[q]]

\* a plausible bug (or design): the required fields are validated before the
\* slot is acquired
CompileRequest_ValidatesFirst(r) ==
    /\ rpc[r] = "new"
    /\ \E kind \in RequestKinds :
         /\ rin' = [rin EXCEPT ![r] = kind]
         /\ IF kind = "missing"
            THEN /\ rres' = [rres EXCEPT ![r] = 400]
                 /\ rpc' = [rpc EXCEPT ![r] = "done"]
                 /\ UNCHANGED <<compilationSemaphore, racq>>
            ELSE /\ LET a == acquire(compilationSemaphore, r)
                    IN  /\ compilationSemaphore' = a.sem
                        /\ rpc' = [rpc EXCEPT ![r] =
                                     IF a.resolved THEN "granted" ELSE "queued"]
                 /\ racq' = [racq EXCEPT ![r] = @ + 1]
                 /\ UNCHANGED rres
    /\ UNCHANGED <<rws, rclean, rout, rrel, rrm, semVars, judgeVars, calcVars, contestVars, burstVars, rmFaults>>

\* the request arrives: the handler calls compilationSemaphore.acquire()
CompileRequest(r) ==
    /\ rpc[r] = "new"
    /\ \E kind \in RequestKinds : rin' = [rin EXCEPT ![r] = kind]
    /\ LET a == acquire(compilationSemaphore, r)
       IN  /\ compilationSemaphore' = a.sem
           /\ rpc' = [rpc EXCEPT ![r] = IF a.resolved THEN "granted" ELSE "queued"]
    /\ racq' = [racq EXCEPT ![r] = @ + 1]
    /\ UNCHANGED <<rres, rws, rclean, rout, rrel, rrm, semVars, judgeVars, calcVars, contestVars, burstVars, rmFaults>>

\* acquire() has returned: the required fields are validated, then the temp
\* directory is ensured (await fs.mkdir)
CompileEnter(r) ==
    /\ rpc[r] = "granted"
    /\ IF rin[r] = "missing"
       THEN CompileExit(r, 400)
       ELSE /\ rpc' = [rpc EXCEPT ![r] = "mkdir"]
            /\ UNCHANGED <<compilationSemaphore, rres, rrel>>
    /\ UNCHANGED <<rin, rws, rclean, rout, racq, rrm, semVars, judgeVars, calcVars, contestVars, burstVars, rmFaults>>

\* after fs.mkdir(tempDir): the switch on the language
CompileAfterMkdir(r) ==
    /\ rpc[r] = "mkdir"
    /\ \E mkdirOk \in BOOLEAN :
         IF ~mkdirOk \/ rin[r] = "badtype"
         THEN CompileExit(r, 500)
         ELSE IF rin[r] = "unsupported"
         THEN CompileExit(r, 400)
         ELSE /\ rpc' = [rpc EXCEPT ![r] = IF rin[r] = "java" THEN "mksubdir" ELSE "write"]
              /\ UNCHANGED <<compilationSemaphore, rres, rrel>>
    /\ UNCHANGED <<rin, rws, rclean, rout, racq, rrm, semVars, judgeVars, calcVars, contestVars, burstVars, rmFaults>>

\* java: after fs.mkdir(uniqueSubDir)
CompileAfterSubdir(r) ==
    /\ rpc[r] = "mksubdir"
    /\ \E mkdirOk \in BOOLEAN :
         IF mkdirOk
         THEN /\ rpc' = [rpc EXCEPT ![r] = "write"]
              /\ rws' = [rws EXCEPT ![r] = {"dir"}]
              /\ UNCHANGED <<compilationSemaphore, rres, rrel>>
         ELSE /\ CompileExit(r, 500)
              /\ UNCHANGED rws
    /\ UNCHANGED <<rin, rclean, rout, racq, rrm, semVars, judgeVars, calcVars, contestVars, burstVars, rmFaults>>

\* after fs.writeFile(filename, actualCode): the command is started
CompileAfterWrite(r) ==
    /\ rpc[r] = "write"
    /\ \E writeOk \in BOOLEAN :
         IF writeOk
         THEN /\ rpc' = [rpc EXCEPT ![r] = "exec"]
              /\ rws' = [rws EXCEPT ![r] = @ \cup {"src"}]
              /\ UNCHANGED <<compilationSemaphore, rres, rrel>>
         ELSE /\ CompileExit(r, 500)
              /\ UNCHANGED rws
    /\ UNCHANGED <<rin, rclean, rout, racq, rrm, semVars, judgeVars, calcVars, contestVars, burstVars, rmFaults>>

\* the files the command leaves behind: a C or C++ compile that succeeded
\* leaves the executable
AfterExec(kind, outcome, files, compiled) ==
    IF kind = "c" /\ (outcome = "ok" \/ compiled) THEN files \cup {"exe"} ELSE files

\* after execAsync(command): on success cleanup() is started and not awaited,
\* the response is sent and the slot released; on failure cleanup() is awaited
CompileAfterExec(r) ==
    /\ rpc[r] = "exec"
    /\ \E outcome \in ExecOutcomes, compiled \in BOOLEAN :
         /\ rws' = [rws EXCEPT ![r] = AfterExec(rin[r], outcome, @, compiled)]
         /\ rout' = [rout EXCEPT ![r] = outcome]
         /\ rrm' = [rrm EXCEPT ![r] = @ + 1]
         /\ IF outcome = "ok"
            THEN /\ rclean' = [rclean EXCEPT ![r] = "running"]
                 /\ CompileExit(r, 200)
            ELSE /\ rpc' = [rpc EXCEPT ![r] = "cleanup"]
                 /\ UNCHANGED <<compilationSemaphore, rres, rrel, rclean>>
    /\ UNCHANGED <<rin, racq, semVars, judgeVars, calcVars, contestVars, burstVars, rmFaults>>

\* cleanup(): the java subdirectory is removed with all it holds, otherwise
\* the source and then the executable are unlinked; a refused removal is
\* logged and leaves what was not yet removed. What can be left of files
\* when refused tells whether the filesystem refuses a removal.
Cleaned(kind, files, refused) ==
    IF ~refused \/ files = {}
    THEN {{}}
    ELSE IF kind = "java"
    THEN {files}
    ELSE {files, files \ {"src"}} \ {{}}

\* the response for a failed execution
ExecErrorStatus(outcome) ==
    CASE outcome = "enoent" -> 500
      [] outcome = "timeout" -> 408
      [] OTHER -> 200

\* the awaited cleanup() of the failure path has ended
CompileAfterCleanup(r) ==
    /\ rpc[r] = "cleanup"
    /\ \E refused \in {FALSE, rmFaults < MaxRmFaults} :
         /\ \E left \in Cleaned(rin[r], rws[r], refused) : rws' = [rws EXCEPT ![r] = left]
         /\ rmFaults' = IF rws'[r] # {} THEN rmFaults + 1 ELSE rmFaults
    /\ CompileExit(r, ExecErrorStatus(rout[r]))
    /\ UNCHANGED <<rin, rclean, rout, racq, rrm, semVars, judgeVars, calcVars, contestVars, burstVars>>

\* the cleanup() of the success path ends, some time after the response
CompileCleanupEnds(r) ==
    /\ rclean[r] = "running"
    /\ \E refused \in {FALSE, rmFaults < MaxRmFaults} :
         /\ \E left \in Cleaned(rin[r], rws[r], refused) : rws' = [rws EXCEPT ![r] = left]
         /\ rmFaults' = IF rws'[r] # {} THEN rmFaults + 1 ELSE rmFaults
    /\ rclean' = [rclean EXCEPT ![r] = "ended"]
    /\ UNCHANGED <<compilationSemaphore, rpc, rin, rres, rout, racq, rrel, rrm, semVars, judgeVars, calcVars, contestVars, burstVars>>

CompNext ==
    \E r \in Requests :
        \/ CompileRequest(r)
        \/ CompileEnter(r)
        \/ CompileAfterMkdir(r)
        \/ CompileAfterSubdir(r)
        \/ CompileAfterWrite(r)
        \/ CompileAfterExec(r)
        \/ CompileAfterCleanup(r)
        \/ CompileCleanupEnds(r)

CompSpec == CompInit /\ [][CompNext]_vars

\* ------------------------------------------------------ POST /submit
\* the statuses of a Submission (models/Submission.js)
TerminalStatuses == {"accepted", "wrong_answer", "compilation_error", "runtime_error",
                     "time_limit_exceeded", "memory_limit_exceeded"}

\* the language kinds runTestCases tells apart: interpreted (python,
\* javascript, go, ruby, php), java (own subdirectory, compiled), c and cpp
\* (compiled to an executable)
LangKinds == {"interp", "java", "c"}

\* the rejections of POST /submit, in the order of the checks: a required
\* field is missing; the language is not one of the valid ones; the user is
\* not found; for a contest submission the contest is not found, the language
\* is not allowed in it, the user is not registered for it, the problem is not
\* one of its problems, or the Problem it refers to is not found; the
\* problem has no test cases; db_error is a throw on the way (a query that
\* rejects, a language that is not a string)
SubmitFaults == {"missing_field", "bad_language", "no_user", "no_contest",
                 "language_not_allowed", "not_registered", "no_contest_problem",
                 "no_referenced_problem", "no_testcases", "db_error"}

\* the status each rejection is answered with
FaultStatus(fault) ==
    CASE fault \in {"missing_field", "bad_language", "language_not_allowed",
                    "no_testcases"} -> 400
      [] fault = "not_registered" -> 403
      [] fault \in {"no_user", "no_contest", "no_contest_problem",
                    "no_referenced_problem", "no_problem"} -> 404
      [] OTHER -> 500

otherVars == <<semVars, compVars, calcVars, contestVars, burstVars>>
idleVars == <<otherVars, rmFaults>>
harnessVars == <<hi, results, hout, hfiles, hinputs, attempt>>

JudgeInit ==
    /\ rmFaults = 0
    /\ CalcVarsInit
    /\ submissionSemaphore \in {NewSemaphore(n) : n \in 1..MaxN}
    /\ JudgeVarsInit
    /\ ContestVarsInit
    /\ BurstVarsInit
    /\ ctl = NewSemaphore(1)
    /\ SemVarsInit
    /\ compilationSemaphore = NewSemaphore(1)
    /\ CompVarsInit

\* new Submission({..., status: 'pending'})
NewSubmission == [Absent EXCEPT !.status = "pending"]

\* a plausible bug: the Submission is created and saved before the test
\* cases are looked at, so that the last rejection leaves a pending record
Reject_RecordFirst(s, fault) ==
    /\ ack' = [ack EXCEPT ![s] =
                 [code |-> FaultStatus(fault), status |-> "none", error |-> fault]]
    /\ hpc' = [hpc EXCEPT ![s] = "done"]
    /\ db' = [db EXCEPT ![s] = IF fault = "no_testcases" THEN NewSubmission ELSE @]

\* return res.status(..).json({success: false, error: ..}): the request is
\* answered and the handler is left; no Submission has been made
Reject(s, fault) ==
    /\ ack' = [ack EXCEPT ![s] =
                 [code |-> FaultStatus(fault), status |-> "none", error |-> fault]]
    /\ hpc' = [hpc EXCEPT ![s] = "done"]
    /\ UNCHANGED db

\* the request is validated up to the creation of the Submission document:
\* it is rejected for one of the faults, or for the standalone problem that
\* is not found, or it goes on to the save of the new document
SubmitValidate(s) ==
    /\ hpc[s] = "new"
    /\ \/ \E fault \in SubmitFaults : Reject(s, fault)
       \/ /\ ~problem.exists
          /\ Reject(s, "no_problem")
       \/ /\ problem.exists
          /\ hpc' = [hpc EXCEPT ![s] = "save"]
          /\ UNCHANGED <<ack, db>>
    /\ UNCHANGED <<submissionSemaphore, wpc, lang, problem, pdel, ploc, harnessVars,
                   sacq, srel, everRunning, termWrites, exitPath, idleVars>>

\* await submission.save() of the new document: it is inserted, or the save
\* throws and the catch block takes over
SubmitSave(s) ==
    /\ hpc[s] = "save"
    /\ \E saved \in BOOLEAN :
         IF saved
         THEN /\ db' = [db EXCEPT ![s] = NewSubmission]
              /\ hpc' = [hpc EXCEPT ![s] = "respond"]
         ELSE /\ hpc' = [hpc EXCEPT ![s] = "fallback"]
              /\ UNCHANGED db
    /\ UNCHANGED <<submissionSemaphore, wpc, lang, ack, problem, pdel, ploc, harnessVars,
                   sacq, srel, everRunning, termWrites, exitPath, idleVars>>

\* a plausible bug: the handler starts the worker and answers only with the
\* worker's result
SubmitRespond_AfterJudging(s) ==
    /\ hpc[s] = "respond"
    /\ hpc' = [hpc EXCEPT ![s] = "done"]
    /\ LET a == acquire(submissionSemaphore, s)
       IN  /\ submissionSemaphore' = a.sem
           /\ wpc' = [wpc EXCEPT ![s] = IF a.resolved THEN "granted" ELSE "waiting"]
    /\ sacq' = [sacq EXCEPT ![s] = @ + 1]
    /\ UNCHANGED <<ack, lang, db, problem, pdel, ploc, harnessVars,
                   srel, everRunning, termWrites, exitPath, idleVars>>

\* the continuation after the save: the 202 acknowledgement is sent, then
\* processSubmissionAsync is called and runs up to its await, that is it
\* calls submissionSemaphore.acquire()
SubmitRespond(s) ==
    /\ hpc[s] = "respond"
    /\ ack' = [ack EXCEPT ![s] = [code |-> 202, status |-> "pending", error |-> "none"]]
    /\ hpc' = [hpc EXCEPT ![s] = "done"]
    /\ LET a == acquire(submissionSemaphore, s)
       IN  /\ submissionSemaphore' = a.sem
           /\ wpc' = [wpc EXCEPT ![s] = IF a.resolved THEN "granted" ELSE "waiting"]
    /\ sacq' = [sacq EXCEPT ![s] = @ + 1]
    /\ UNCHANGED <<lang, db, problem, pdel, ploc, harnessVars,
                   srel, everRunning, termWrites, exitPath, idleVars>>

\* the catch block of the handler after a failed save: the document gets
\* status runtime_error and is saved again (a failure is only logged), then
\* the request is answered with 500; no worker is started
SubmitFallback(s) ==
    /\ hpc[s] = "fallback"
    /\ \E saved \in BOOLEAN :
         IF saved
         THEN /\ db' = [db EXCEPT ![s] = [NewSubmission EXCEPT !.status = "runtime_error"]]
              /\ termWrites' = [termWrites EXCEPT ![s] = @ + 1]
         ELSE UNCHANGED <<db, termWrites>>
    /\ ack' = [ack EXCEPT ![s] = [code |-> 500, status |-> "none", error |-> "db_error"]]
    /\ hpc' = [hpc EXCEPT ![s] = "done"]
    /\ UNCHANGED <<submissionSemaphore, wpc, lang, problem, pdel, ploc, harnessVars,
                   sacq, srel, everRunning, exitPath, idleVars>>

\* ------------------------------ DELETE /api/problems/:id (cascade delete)
\* Submission.deleteMany({ problemId }): every record of the problem goes
DeleteSubmissions ==
    /\ pdel = "none"
    /\ problem.exists
    /\ db' = [s \in Subs |-> Absent]
    /\ pdel' = "submissions"
    /\ UNCHANGED <<submissionSemaphore, hpc, wpc, lang, ack, problem, ploc, harnessVars,
                   sacq, srel, everRunning, termWrites, exitPath, idleVars>>

\* Problem.findByIdAndDelete(problemId)
DeleteProblem ==
    /\ pdel = "submissions"
    /\ problem' = [problem EXCEPT !.exists = FALSE]
    /\ pdel' = "done"
    /\ UNCHANGED <<submissionSemaphore, hpc, wpc, lang, db, ack, ploc, harnessVars,
                   sacq, srel, everRunning, termWrites, exitPath, idleVars>>

\* ------------------------------------------------ processSubmissionAsync
\* a plausible bug: the early return for a missing record sits before the
\* try/finally, so that path keeps the slot
WorkerExit_NotFoundKeepsSlot(s, path) ==
    /\ exitPath' = [exitPath EXCEPT ![s] = path]
    /\ IF path = "not_found"
       THEN /\ wpc' = [wpc EXCEPT ![s] = "done"]
            /\ UNCHANGED <<submissionSemaphore, srel>>
       ELSE LET rel == release(submissionSemaphore)
            IN  /\ submissionSemaphore' = rel.sem
                /\ srel' = [srel EXCEPT ![s] = @ + 1]
                /\ wpc' = [w \in Subs |->
                             IF w = s THEN "done"
                             ELSE IF w \in rel.woken THEN "granted" ELSE wpc[w]]

\* the finally block: the worker ends, on whichever path, by releasing the
\* slot, which resolves the acquire() of the first waiting worker
WorkerExit(s, path) ==
    LET rel == release(submissionSemaphore)
    IN  /\ exitPath' = [exitPath EXCEPT ![s] = path]
        /\ submissionSemaphore' = rel.sem
        /\ srel' = [srel EXCEPT ![s] = @ + 1]
        /\ wpc' = [w \in Subs |->
                     IF w = s THEN "done"
                     ELSE IF w \in rel.woken THEN "granted" ELSE wpc[w]]

\* acquire() has returned; Submission.findById(submissionId): it throws, or
\* finds nothing (the worker returns), or finds the record, whose status is
\* set to running and saved
WorkerFind(s) ==
    /\ wpc[s] = "granted"
    /\ \E found \in BOOLEAN :
         IF ~found
         THEN /\ wpc' = [wpc EXCEPT ![s] = "catch"]
              /\ UNCHANGED <<submissionSemaphore, srel, exitPath>>
         ELSE IF db[s].status = "absent"
         THEN WorkerExit(s, "not_found")
         ELSE /\ wpc' = [wpc EXCEPT ![s] = "claim"]
              /\ UNCHANGED <<submissionSemaphore, srel, exitPath>>
    /\ UNCHANGED <<hpc, lang, db, ack, problem, pdel, ploc, harnessVars,
                   sacq, everRunning, termWrites, idleVars>>

\* a plausible bug: status running is set on the document but the document
\* is not saved before runTestCases is called
WorkerClaim_NotSaved(s) ==
    /\ wpc[s] = "claim"
    /\ \E l \in LangKinds : lang' = [lang EXCEPT ![s] = l]
    /\ wpc' = [wpc EXCEPT ![s] = "h_mkdir"]
    /\ UNCHANGED <<db, everRunning>>
    /\ UNCHANGED <<submissionSemaphore, hpc, ack, problem, pdel, ploc, harnessVars,
                   sacq, srel, termWrites, exitPath, idleVars>>

\* await submission.save() with status running: the save fails (also when the
\* record has been deleted meanwhile), or the record is running and
\* runTestCases is called with the language of the submission (any of the
\* valid languages) and starts with fs.mkdir(tempDir)
WorkerClaim(s) ==
    /\ wpc[s] = "claim"
    /\ \E saved \in BOOLEAN :
         IF saved /\ db[s].status # "absent"
         THEN /\ db' = [db EXCEPT ![s].status = "running"]
              /\ everRunning' = [everRunning EXCEPT ![s] = TRUE]
              /\ \E l \in LangKinds : lang' = [lang EXCEPT ![s] = l]
              /\ wpc' = [wpc EXCEPT ![s] = "h_mkdir"]
         ELSE /\ wpc' = [wpc EXCEPT ![s] = "catch"]
              /\ UNCHANGED <<db, everRunning, lang>>
    /\ UNCHANGED <<submissionSemaphore, hpc, ack, problem, pdel, ploc, harnessVars,
                   sacq, srel, termWrites, exitPath, idleVars>>

\* ---------------------------------------------------------- runTestCases
NeedsCompilation(l) == l \in {"java", "c"}

\* one entry of the results array. error and compilationError are texts, told
\* apart as far as the claims need: "diagnostic" is the text of the failed
\* compile step (compileError.stderr || compileError.message, never empty),
\* "stderr" is what a run wrote on stderr (possibly nothing), "" is no text
Result(status, errorType, error, compilationError) ==
    [status |-> status, errorType |-> errorType, error |-> error,
     compilationError |-> compilationError]

\* the results of a failed compile step: one compilation error per test
\* case, each carrying the compiler's text in error and in compilationError
CompileErrorResults ==
    [i \in 1..problem.testCases |->
        Result("error", "compilation", "diagnostic", "diagnostic")]

\* how a run step can end: the output equals the expected output, or differs,
\* or the command fails, or it is killed by the timeout
RunOutcomes == {"passed", "failed", "runtime", "timeout"}

\* after fs.mkdir(tempDir), before the try block: a throw leaves runTestCases
\* at once; java goes on to make its subdirectory, the others write the source
HarnessMkdir(s) ==
    /\ wpc[s] = "h_mkdir"
    /\ \E made \in BOOLEAN :
         IF made
         THEN /\ wpc' = [wpc EXCEPT ![s] = IF lang[s] = "java" THEN "h_subdir" ELSE "h_write"]
              /\ UNCHANGED lang
         ELSE /\ wpc' = [wpc EXCEPT ![s] = "catch"]
              /\ lang' = [lang EXCEPT ![s] = "none"]
    /\ UNCHANGED <<submissionSemaphore, hpc, db, ack, problem, pdel, ploc, harnessVars,
                   sacq, srel, everRunning, termWrites, exitPath, idleVars>>

\* java: after fs.mkdir(uniqueSubDir), still before the try block
HarnessSubdir(s) ==
    /\ wpc[s] = "h_subdir"
    /\ \E made \in BOOLEAN :
         IF made
         THEN /\ hfiles' = [hfiles EXCEPT ![s] = {"dir"}]
              /\ wpc' = [wpc EXCEPT ![s] = "h_write"]
              /\ UNCHANGED lang
         ELSE /\ wpc' = [wpc EXCEPT ![s] = "catch"]
              /\ lang' = [lang EXCEPT ![s] = "none"]
              /\ UNCHANGED hfiles
    /\ UNCHANGED <<submissionSemaphore, hpc, db, ack, problem, pdel, ploc,
                   hi, results, hout, hinputs, attempt,
                   sacq, srel, everRunning, termWrites, exitPath, idleVars>>

\* a plausible bug: needsCompilation is not set for java, so its source is
\* run without a compile step
HarnessWrite_JavaNotCompiled(s) ==
    /\ wpc[s] = "h_write"
    /\ \E written \in BOOLEAN :
         IF written
         THEN /\ hfiles' = [hfiles EXCEPT ![s] = @ \cup {"src"}]
              /\ wpc' = [wpc EXCEPT ![s] =
                           IF lang[s] = "c" THEN "h_compile" ELSE "h_input"]
              /\ attempt' = [attempt EXCEPT ![s].flying =
                               IF lang[s] = "c" THEN @ + 1 ELSE @]
              /\ hi' = [hi EXCEPT ![s] = 1]
              /\ UNCHANGED hout
         ELSE /\ hout' = [hout EXCEPT ![s] = "throw"]
              /\ wpc' = [wpc EXCEPT ![s] = "h_cleanup"]
              /\ UNCHANGED <<hfiles, hi, attempt>>
    /\ UNCHANGED <<submissionSemaphore, hpc, lang, db, ack, problem, pdel, ploc,
                   results, hinputs,
                   sacq, srel, everRunning, termWrites, exitPath, idleVars>>

\* after fs.writeFile(filename, code): the compile step is started for a
\* compiled language, otherwise the loop over the test cases is entered (every
\* test case of a Problem has a non-empty input, so its input file is written)
HarnessWrite(s) ==
    /\ wpc[s] = "h_write"
    /\ \E written \in BOOLEAN :
         IF written
         THEN /\ hfiles' = [hfiles EXCEPT ![s] = @ \cup {"src"}]
              /\ wpc' = [wpc EXCEPT ![s] =
                           IF NeedsCompilation(lang[s]) THEN "h_compile" ELSE "h_input"]
              /\ attempt' = [attempt EXCEPT ![s].flying =
                               IF NeedsCompilation(lang[s]) THEN @ + 1 ELSE @]
              /\ hi' = [hi EXCEPT ![s] = 1]
              /\ UNCHANGED hout
         ELSE /\ hout' = [hout EXCEPT ![s] = "throw"]
              /\ wpc' = [wpc EXCEPT ![s] = "h_cleanup"]
              /\ UNCHANGED <<hfiles, hi, attempt>>
    /\ UNCHANGED <<submissionSemaphore, hpc, lang, db, ack, problem, pdel, ploc,
                   results, hinputs,
                   sacq, srel, everRunning, termWrites, exitPath, idleVars>>

\* a plausible bug: a failed compile step is only logged and the loop over
\* the test cases is entered all the same
HarnessCompile_NoShortCircuit(s) ==
    /\ wpc[s] = "h_compile"
    /\ \E compiled \in BOOLEAN :
         /\ attempt' = [attempt EXCEPT ![s].compile = IF compiled THEN "ok" ELSE "failed",
                                       ![s].flying = @ - 1]
         /\ hfiles' = [hfiles EXCEPT ![s] =
                         IF compiled /\ lang[s] = "c" THEN @ \cup {"exe"} ELSE @]
         /\ wpc' = [wpc EXCEPT ![s] = "h_input"]
    /\ UNCHANGED <<submissionSemaphore, hpc, lang, db, ack, problem, pdel, ploc,
                   hi, results, hout, hinputs,
                   sacq, srel, everRunning, termWrites, exitPath, idleVars>>

\* after execAsync(compileCommand): on failure every test case gets a
\* compilation error and runTestCases returns (through the finally block)
HarnessCompile(s) ==
    /\ wpc[s] = "h_compile"
    /\ \E compiled \in BOOLEAN :
         /\ attempt' = [attempt EXCEPT ![s].compile = IF compiled THEN "ok" ELSE "failed",
                                       ![s].flying = @ - 1]
         /\ IF compiled
            THEN /\ hfiles' = [hfiles EXCEPT ![s] = IF lang[s] = "c" THEN @ \cup {"exe"} ELSE @]
                 /\ wpc' = [wpc EXCEPT ![s] = "h_input"]
                 /\ UNCHANGED <<results, hout>>
            ELSE /\ results' = [results EXCEPT ![s] = CompileErrorResults]
                 /\ hout' = [hout EXCEPT ![s] = "return"]
                 /\ wpc' = [wpc EXCEPT ![s] = "h_cleanup"]
                 /\ UNCHANGED hfiles
    /\ UNCHANGED <<submissionSemaphore, hpc, lang, db, ack, problem, pdel, ploc,
                   hi, hinputs,
                   sacq, srel, everRunning, termWrites, exitPath, idleVars>>

\* a plausible bug: a command that fails is recorded as a result with status
\* memory_exceeded
RunStep_MemoryExceeded(outcome) ==
    IF outcome \in {"passed", "failed"}
    THEN [thrown |-> FALSE, result |-> Result(outcome, "none", "stderr", "")]
    ELSE IF outcome = "runtime"
    THEN [thrown |-> FALSE, result |-> Result("memory_exceeded", "none", "stderr", "")]
    ELSE [thrown |-> TRUE, result |-> Result("none", "none", "", "")]

\* one run step, from the outcome of its command. Resolved: the result is
\* passed or failed by the comparison of the outputs. Rejected: the catch
\* (execError) block reads startTime, which is declared inside the try block
\* and is out of scope in the catch, so its first statement throws a
\* ReferenceError: no result is pushed and runTestCases is left by the throw.
RunStep(outcome) ==
    IF outcome \in {"passed", "failed"}
    THEN [thrown |-> FALSE, result |-> Result(outcome, "none", "stderr", "")]
    ELSE [thrown |-> TRUE, result |-> Result("none", "none", "", "")]

\* a plausible bug: the run commands of all the test cases left are started
\* at once and awaited together
HarnessInput_AllAtOnce(s) ==
    /\ wpc[s] = "h_input"
    /\ \E written \in BOOLEAN :
         IF written
         THEN /\ hinputs' = [hinputs EXCEPT ![s] = @ \cup {hi[s]}]
              /\ attempt' = [attempt EXCEPT
                     ![s].flying = @ + (problem.testCases - hi[s] + 1),
                     ![s].starts = @ \o [k \in 1..(problem.testCases - hi[s] + 1) |->
                                            hi[s] + k - 1]]
              /\ wpc' = [wpc EXCEPT ![s] = "h_run"]
              /\ UNCHANGED hout
         ELSE /\ hout' = [hout EXCEPT ![s] = "throw"]
              /\ wpc' = [wpc EXCEPT ![s] = "h_cleanup"]
              /\ UNCHANGED <<hinputs, attempt>>
    /\ UNCHANGED <<submissionSemaphore, hpc, lang, db, ack, problem, pdel, ploc,
                   hi, results, hfiles,
                   sacq, srel, everRunning, termWrites, exitPath, idleVars>>

\* after fs.writeFile(inputFile, input) of test case hi: the run command is
\* started; a failed write lands in the catch block of the run step
HarnessInput(s) ==
    /\ wpc[s] = "h_input"
    /\ \E written \in BOOLEAN :
         IF written
         THEN /\ hinputs' = [hinputs EXCEPT ![s] = @ \cup {hi[s]}]
              /\ attempt' = [attempt EXCEPT ![s].flying = @ + 1,
                                            ![s].starts = Append(@, hi[s])]
              /\ wpc' = [wpc EXCEPT ![s] = "h_run"]
              /\ UNCHANGED hout
         ELSE /\ hout' = [hout EXCEPT ![s] = "throw"]
              /\ wpc' = [wpc EXCEPT ![s] = "h_cleanup"]
              /\ UNCHANGED <<hinputs, attempt>>
    /\ UNCHANGED <<submissionSemaphore, hpc, lang, db, ack, problem, pdel, ploc,
                   hi, results, hfiles,
                   sacq, srel, everRunning, termWrites, exitPath, idleVars>>

\* after execAsync(finalCommand) of test case hi. Resolved: the input file is
\* unlinked (a refusal is ignored), the result is pushed and the loop goes
\* on. Rejected: the catch block throws before it unlinks the input file.
HarnessRun(s) ==
    /\ wpc[s] = "h_run"
    /\ \E outcome \in RunOutcomes :
         LET step == RunStep(outcome)
         IN  /\ attempt' = [attempt EXCEPT ![s].runs = Append(@, outcome),
                                           ![s].flying = @ - 1]
             /\ IF ~step.thrown
                THEN /\ results' = [results EXCEPT ![s] = Append(@, step.result)]
                     /\ \E refused \in {FALSE, rmFaults < MaxRmFaults} :
                          /\ hinputs' = [hinputs EXCEPT ![s] =
                                            IF refused THEN @ ELSE @ \ {hi[s]}]
                          /\ rmFaults' = IF refused THEN rmFaults + 1 ELSE rmFaults
                     /\ IF hi[s] < problem.testCases
                        THEN /\ hi' = [hi EXCEPT ![s] = @ + 1]
                             /\ wpc' = [wpc EXCEPT ![s] = "h_input"]
                             /\ UNCHANGED hout
                        ELSE /\ hout' = [hout EXCEPT ![s] = "return"]
                             /\ wpc' = [wpc EXCEPT ![s] = "h_cleanup"]
                             /\ UNCHANGED hi
                ELSE /\ hout' = [hout EXCEPT ![s] = "throw"]
                     /\ wpc' = [wpc EXCEPT ![s] = "h_cleanup"]
                     /\ UNCHANGED <<results, hinputs, hi, rmFaults>>
    /\ UNCHANGED <<submissionSemaphore, hpc, lang, db, ack, problem, pdel, ploc,
                   hfiles,
                   sacq, srel, everRunning, termWrites, exitPath, otherVars>>

\* the finally block: the java subdirectory is removed with all it holds,
\* otherwise the source and then the executable are unlinked; a refused
\* removal is logged and leaves what was not yet removed
HarnessCleaned(l, files, refused) ==
    IF ~refused \/ files = {}
    THEN {{}}
    ELSE IF l = "java"
    THEN {files}
    ELSE {files, files \ {"src"}} \ {{}}

\* after the finally block: runTestCases returns its results, and the worker
\* goes on to save the verdict, or the pending throw reaches the worker's catch
HarnessCleanup(s) ==
    /\ wpc[s] = "h_cleanup"
    /\ \E refused \in {FALSE, rmFaults < MaxRmFaults} :
         /\ \E left \in HarnessCleaned(lang[s], hfiles[s], refused) :
              hfiles' = [hfiles EXCEPT ![s] = left]
         /\ rmFaults' = IF hfiles'[s] # {} THEN rmFaults + 1 ELSE rmFaults
    /\ wpc' = [wpc EXCEPT ![s] = IF hout[s] = "return" THEN "persist" ELSE "catch"]
    /\ hi' = [hi EXCEPT ![s] = 0]
    /\ hout' = [hout EXCEPT ![s] = "none"]
    /\ lang' = [lang EXCEPT ![s] = "none"]
    /\ results' = [results EXCEPT ![s] = IF hout[s] = "return" THEN @ ELSE <<>>]
    /\ UNCHANGED <<submissionSemaphore, hpc, db, ack, problem, pdel, ploc,
                   hinputs, attempt,
                   sacq, srel, everRunning, termWrites, exitPath, otherVars>>

\* ------------------------------- processSubmissionAsync: the verdict
\* passedCount
PassedCount(res) == Cardinality({i \in DOMAIN res : res[i].status = "passed"})

HasCompilationError(res) ==
    \E i \in DOMAIN res : res[i].status = "error" /\ res[i].errorType = "compilation"
HasRuntimeError(res) ==
    \E i \in DOMAIN res : res[i].status = "error" /\ res[i].errorType = "runtime"
HasTimeoutError(res) == \E i \in DOMAIN res : res[i].status = "timeout"
HasMemoryError(res) == \E i \in DOMAIN res : res[i].status = "memory_exceeded"

\* a plausible bug: the timeout branch is tested before the runtime branch
FinalStatus_TimeoutFirst(res, total) ==
    IF HasCompilationError(res) THEN "compilation_error"
    ELSE IF HasTimeoutError(res) THEN "time_limit_exceeded"
    ELSE IF HasRuntimeError(res) THEN "runtime_error"
    ELSE IF HasMemoryError(res) THEN "memory_limit_exceeded"
    ELSE IF PassedCount(res) = total THEN "accepted"
    ELSE "wrong_answer"

\* finalStatus, for the results and testCases.length
FinalStatus(res, total) ==
    IF HasCompilationError(res) THEN "compilation_error"
    ELSE IF HasRuntimeError(res) THEN "runtime_error"
    ELSE IF HasTimeoutError(res) THEN "time_limit_exceeded"
    ELSE IF HasMemoryError(res) THEN "memory_limit_exceeded"
    ELSE IF PassedCount(res) = total THEN "accepted"
    ELSE "wrong_answer"

\* maxScore of a standalone problem
StandaloneMaxScore == 100

\* ---- the arithmetic of a JavaScript Number (IEEE 754 binary64), as far as
\* Math.floor((passedCount / testCases.length) * maxScore) needs it. A
\* positive number is [bits, scale]: the integer whose binary digits are
\* bits (most significant first) times 2^(-scale).
\* the number of significant binary digits of a Number
MantissaBits == 53

RECURSIVE Pow2Mod(_, _)
\* 2^n modulo t, by repeated squaring
Pow2Mod(n, t) ==
    IF n = 0 THEN 1 % t
    ELSE LET h == Pow2Mod(n \div 2, t)
         IN  (h * h * (IF n % 2 = 1 THEN 2 ELSE 1)) % t

\* what is left of r / t after n binary digits, as a remainder in 0..t-1
FracRem(r, t, n) == (r * Pow2Mod(n, t)) % t

\* the first n binary digits of r / t after the point, for 0 <= r < t: the
\* i-th digit is the integer part of twice what is left after i - 1 digits
FracBits(r, t, n) == [i \in 1..n |-> (2 * FracRem(r, t, i - 1)) \div t]

RECURSIVE LeadingZeros(_, _)
\* the number of zero digits of r / t after the point, for 0 < r < t
LeadingZeros(r, t) == IF 2 * r >= t THEN 0 ELSE 1 + LeadingZeros(2 * r, t)

RECURSIVE Pow2(_)
Pow2(n) == IF n = 0 THEN 1 ELSE 2 * Pow2(n - 1)

\* bits + 1: the last zero digit becomes one and the ones after it zero
IncBits(b) ==
    LET zeros == {i \in 1..Len(b) : b[i] = 0}
    IN  IF zeros = {}
        THEN <<1>> \o [i \in 1..Len(b) |-> 0]
        ELSE LET j == CHOOSE i \in zeros : \A k \in zeros : k <= i
             IN  [i \in 1..Len(b) |-> IF i < j THEN b[i] ELSE IF i = j THEN 1 ELSE 0]

RECURSIVE ToBits(_)
ToBits(n) == IF n = 0 THEN <<>> ELSE ToBits(n \div 2) \o <<n % 2>>

RECURSIVE FromBits(_)
FromBits(b) ==
    IF b = <<>> THEN 0 ELSE 2 * FromBits(SubSeq(b, 1, Len(b) - 1)) + b[Len(b)]

\* the n low binary digits of v
LowBits(v, n) == [i \in 1..n |-> (v \div Pow2(n - i)) % 2]

RECURSIVE MulBits(_, _, _)
\* bits * m + carry, for bits that start with 1 and m > 0, sixteen digits at
\* a time from the least significant (so that every product is a small
\* integer); the result has no leading zero
MulBits(b, m, carry) ==
    IF Len(b) <= 16
    THEN ToBits(FromBits(b) * m + carry)
    ELSE LET v == FromBits(SubSeq(b, Len(b) - 15, Len(b))) * m + carry
         IN  MulBits(SubSeq(b, 1, Len(b) - 16), m, v \div Pow2(16))
                 \o LowBits(v % Pow2(16), 16)

\* round-to-nearest, ties-to-even, of bits (no leading zero) to MantissaBits
\* significant digits; the digits dropped are replaced by zeros
RoundBits(b) ==
    IF Len(b) <= MantissaBits THEN b
    ELSE LET keep == SubSeq(b, 1, MantissaBits)
             drop == SubSeq(b, MantissaBits + 1, Len(b))
             half == drop[1] = 1
             more == \E i \in 2..Len(drop) : drop[i] = 1
             up   == half /\ (more \/ keep[MantissaBits] = 1)
         IN  (IF up THEN IncBits(keep) ELSE keep) \o [i \in 1..Len(drop) |-> 0]

\* passed / total as a Number, for 0 < passed < total: the quotient rounded
\* to nearest, ties to even
Quotient(passed, total) ==
    LET k    == LeadingZeros(passed, total)
        r    == passed * Pow2(k)
        bits == FracBits(r, total, MantissaBits)
        rem  == FracRem(r, total, MantissaBits)
        up   == 2 * rem > total \/ (2 * rem = total /\ bits[MantissaBits] = 1)
    IN  [bits |-> IF up THEN IncBits(bits) ELSE bits, scale |-> k + MantissaBits]

\* x * m as a Number, for a Number x and an integer m > 0
Times(x, m) == [bits |-> RoundBits(MulBits(x.bits, m, 0)), scale |-> x.scale]

\* Math.floor(x) for a Number x >= 0
Floor(x) ==
    IF Len(x.bits) <= x.scale THEN 0
    ELSE FromBits(SubSeq(x.bits, 1, Len(x.bits) - x.scale))

\* Math.floor((passedCount / testCases.length) * maxScore), for integers
\* 0 <= passed <= total, total >= 1, maxScore >= 0: 0 / total is 0 and
\* total / total is 1 exactly, every other quotient is rounded
Score(passed, total, maxScore) ==
    IF passed = 0 \/ maxScore = 0 THEN 0
    ELSE IF passed = total THEN maxScore
    ELSE Floor(Times(Quotient(passed, total), maxScore))

\* a plausible bug: compilationOutput is set from the error text of the
\* first result whatever the result is
Verdict_ErrorAsOutput(res, total, maxScore) ==
    [status |-> FinalStatus(res, total),
     passedTestCases |-> PassedCount(res),
     score |-> Score(PassedCount(res), total, maxScore),
     testCaseResults |-> [i \in DOMAIN res |->
                            [status |-> res[i].status, errorMessage |-> res[i].error]],
     compilationOutput |-> res[1].error]

\* the record as processSubmissionAsync sets it from the results
Verdict(res, total, maxScore) ==
    [status |-> FinalStatus(res, total),
     passedTestCases |-> PassedCount(res),
     score |-> Score(PassedCount(res), total, maxScore),
     testCaseResults |-> [i \in DOMAIN res |->
                            [status |-> res[i].status, errorMessage |-> res[i].error]],
     compilationOutput |-> IF HasCompilationError(res) /\ res[1].compilationError # ""
                           THEN res[1].compilationError
                           ELSE ""]

\* a plausible bug: a failure of the statistics update is not caught where
\* it happens and reaches the catch block of the worker
AfterStatistics_Throws(s, failed) ==
    IF failed
    THEN /\ wpc' = [wpc EXCEPT ![s] = "catch"]
         /\ UNCHANGED <<submissionSemaphore, srel, exitPath>>
    ELSE WorkerExit(s, "completed")

\* the end of updateStatistics: its own try/catch logs a failure, the worker
\* logs the verdict and leaves through the finally block
AfterStatistics(s, failed) ==
    WorkerExit(s, IF failed THEN "statistics_failed" ELSE "completed")

\* a plausible bug: the slot is released as soon as the verdict is saved and
\* the statistics are updated after it
WorkerPersist_ReleasesFirst(s) ==
    /\ wpc[s] = "persist"
    /\ \E saved \in BOOLEAN :
         IF saved /\ db[s].status # "absent"
         THEN /\ db' = [db EXCEPT ![s] = Verdict(results[s], problem.testCases, StandaloneMaxScore)]
              /\ termWrites' = [termWrites EXCEPT ![s] = @ + 1]
              /\ attempt' = [attempt EXCEPT ![s].verdict = "saved"]
              /\ LET rel == release(submissionSemaphore)
                 IN  /\ submissionSemaphore' = rel.sem
                     /\ srel' = [srel EXCEPT ![s] = @ + 1]
                     /\ wpc' = [w \in Subs |->
                                  IF w = s THEN "stats_load"
                                  ELSE IF w \in rel.woken THEN "granted" ELSE wpc[w]]
         ELSE /\ wpc' = [wpc EXCEPT ![s] = "catch"]
              /\ attempt' = [attempt EXCEPT ![s].verdict = "refused"]
              /\ UNCHANGED <<db, termWrites, submissionSemaphore, srel>>
    /\ results' = [results EXCEPT ![s] = <<>>]
    /\ UNCHANGED <<hpc, lang, ack, problem, pdel, ploc,
                   hi, hout, hfiles, hinputs,
                   sacq, everRunning, exitPath, idleVars>>

\* await submission.save() of the verdict: saved, and updateStatistics loads
\* the problem, or the save throws (also when the record has been deleted)
WorkerPersist(s) ==
    /\ wpc[s] = "persist"
    /\ \E saved \in BOOLEAN :
         IF saved /\ db[s].status # "absent"
         THEN /\ db' = [db EXCEPT ![s] = Verdict(results[s], problem.testCases, StandaloneMaxScore)]
              /\ termWrites' = [termWrites EXCEPT ![s] = @ + 1]
              /\ attempt' = [attempt EXCEPT ![s].verdict = "saved"]
              /\ wpc' = [wpc EXCEPT ![s] = "stats_load"]
         ELSE /\ wpc' = [wpc EXCEPT ![s] = "catch"]
              /\ attempt' = [attempt EXCEPT ![s].verdict = "refused"]
              /\ UNCHANGED <<db, termWrites>>
    /\ results' = [results EXCEPT ![s] = <<>>]
    /\ UNCHANGED <<submissionSemaphore, hpc, lang, ack, problem, pdel, ploc,
                   hi, hout, hfiles, hinputs,
                   sacq, srel, everRunning, exitPath, idleVars>>

\* a plausible bug: totalSubmissions is incremented inside the test for an
\* accepted submission
WorkerStatsLoad_AcceptedOnly(s) ==
    /\ wpc[s] = "stats_load"
    /\ \E loaded \in BOOLEAN :
         IF loaded /\ problem.exists
         THEN /\ ploc' = [ploc EXCEPT ![s] =
                  [totalSubmissions |-> problem.totalSubmissions +
                       (IF db[s].status = "accepted" THEN 1 ELSE 0),
                   successfulSubmissions |-> problem.successfulSubmissions +
                       (IF db[s].status = "accepted" THEN 1 ELSE 0)]]
              /\ attempt' = [attempt EXCEPT ![s].read = problem.totalSubmissions]
              /\ wpc' = [wpc EXCEPT ![s] = "stats_save"]
              /\ UNCHANGED <<submissionSemaphore, srel, exitPath>>
         ELSE /\ AfterStatistics(s, ~loaded)
              /\ UNCHANGED <<ploc, attempt>>
    /\ UNCHANGED <<hpc, lang, db, ack, problem, pdel, hi, results, hout, hfiles, hinputs,
                   sacq, everRunning, termWrites, idleVars>>

\* updateStatistics, after Problem.findById: the load throws or finds nothing
\* (nothing is updated), or the counters of the loaded document are
\* incremented and the document is saved
WorkerStatsLoad(s) ==
    /\ wpc[s] = "stats_load"
    /\ \E loaded \in BOOLEAN :
         IF loaded /\ problem.exists
         THEN /\ ploc' = [ploc EXCEPT ![s] =
                  [totalSubmissions |-> problem.totalSubmissions + 1,
                   successfulSubmissions |-> problem.successfulSubmissions +
                       (IF db[s].status = "accepted" THEN 1 ELSE 0)]]
              /\ attempt' = [attempt EXCEPT ![s].read = problem.totalSubmissions]
              /\ wpc' = [wpc EXCEPT ![s] = "stats_save"]
              /\ UNCHANGED <<submissionSemaphore, srel, exitPath>>
         ELSE /\ AfterStatistics(s, ~loaded)
              /\ UNCHANGED <<ploc, attempt>>
    /\ UNCHANGED <<hpc, lang, db, ack, problem, pdel, hi, results, hout, hfiles, hinputs,
                   sacq, everRunning, termWrites, idleVars>>

\* a plausible bug: a failed save of the statistics marks the submission
\* as failed
WorkerStatsSave_MarksFailed(s) ==
    /\ wpc[s] = "stats_save"
    /\ \E saved \in BOOLEAN :
         /\ IF saved /\ problem.exists
            THEN /\ problem' = [problem EXCEPT
                                   !.totalSubmissions = ploc[s].totalSubmissions,
                                   !.successfulSubmissions = ploc[s].successfulSubmissions]
                 /\ UNCHANGED db
            ELSE /\ db' = [db EXCEPT ![s].status =
                              IF @ = "absent" THEN @ ELSE "runtime_error"]
                 /\ UNCHANGED problem
         /\ AfterStatistics(s, ~(saved /\ problem.exists))
    /\ ploc' = [ploc EXCEPT ![s] = [totalSubmissions |-> 0, successfulSubmissions |-> 0]]
    /\ UNCHANGED <<hpc, lang, ack, pdel, harnessVars,
                   sacq, everRunning, termWrites, idleVars>>

\* updateStatistics, after problem.save(): the counters of the loaded
\* document are written, or the save throws and is logged
WorkerStatsSave(s) ==
    /\ wpc[s] = "stats_save"
    /\ \E saved \in BOOLEAN :
         /\ IF saved /\ problem.exists
            THEN problem' = [problem EXCEPT
                                !.totalSubmissions = ploc[s].totalSubmissions,
                                !.successfulSubmissions = ploc[s].successfulSubmissions]
            ELSE UNCHANGED problem
         /\ AfterStatistics(s, ~(saved /\ problem.exists))
    /\ ploc' = [ploc EXCEPT ![s] = [totalSubmissions |-> 0, successfulSubmissions |-> 0]]
    /\ UNCHANGED <<hpc, lang, db, ack, pdel, harnessVars,
                   sacq, everRunning, termWrites, idleVars>>

\* the catch block: Submission.findById again; when it throws or finds
\* nothing the worker ends, otherwise status runtime_error is saved
WorkerCatchFind(s) ==
    /\ wpc[s] = "catch"
    /\ \E found \in BOOLEAN :
         IF found /\ db[s].status # "absent"
         THEN /\ wpc' = [wpc EXCEPT ![s] = "catch_save"]
              /\ UNCHANGED <<submissionSemaphore, srel, exitPath>>
         ELSE WorkerExit(s, IF found THEN "caught_not_found" ELSE "fallback_failed")
    /\ UNCHANGED <<hpc, lang, db, ack, problem, pdel, ploc, harnessVars,
                   sacq, everRunning, termWrites, idleVars>>

\* the catch block, after submission.save(): the record is runtime_error, or
\* the save throws, which is logged and leaves the record as it is
WorkerCatchSave(s) ==
    /\ wpc[s] = "catch_save"
    /\ \E saved \in BOOLEAN :
         IF saved /\ db[s].status # "absent"
         THEN /\ db' = [db EXCEPT ![s].status = "runtime_error"]
              /\ termWrites' = [termWrites EXCEPT ![s] = @ + 1]
              /\ WorkerExit(s, "caught")
         ELSE /\ WorkerExit(s, "fallback_failed")
              /\ UNCHANGED <<db, termWrites>>
    /\ UNCHANGED <<hpc, lang, ack, problem, pdel, ploc, harnessVars,
                   sacq, everRunning, idleVars>>

JudgeNext ==
    \/ \E s \in Subs :
        \/ SubmitValidate(s)
        \/ SubmitSave(s)
        \/ SubmitRespond(s)
        \/ SubmitFallback(s)
        \/ WorkerFind(s)
        \/ WorkerClaim(s)
        \/ HarnessMkdir(s)
        \/ HarnessSubdir(s)
        \/ HarnessWrite(s)
        \/ HarnessCompile(s)
        \/ HarnessInput(s)
        \/ HarnessRun(s)
        \/ HarnessCleanup(s)
        \/ WorkerPersist(s)
        \/ WorkerStatsLoad(s)
        \/ WorkerStatsSave(s)
        \/ WorkerCatchFind(s)
        \/ WorkerCatchSave(s)
    \/ DeleteSubmissions
    \/ DeleteProblem

JudgeSpec == JudgeInit /\ [][JudgeNext]_vars

\* ======================================================= HarnessSpec
\* The judging of submissions to a problem with more than one test case,
\* from the moment each accepted request has saved its pending record.

\* number of test cases of the problem of this specification
NumHarnessCases == 2

HarnessInit ==
    /\ rmFaults = 0
    /\ CalcVarsInit
    /\ submissionSemaphore \in {NewSemaphore(n) : n \in 1..MaxN}
    /\ hpc = [s \in Subs |-> "respond"]
    /\ wpc = [s \in Subs |-> "none"]
    /\ lang = [s \in Subs |-> "none"]
    /\ db = [s \in Subs |-> NewSubmission]
    /\ ack = [s \in Subs |-> NoResponse]
    /\ problem = NewProblem(NumHarnessCases)
    /\ pdel = "none"
    /\ ploc = [s \in Subs |-> [totalSubmissions |-> 0, successfulSubmissions |-> 0]]
    /\ hi = [s \in Subs |-> 0]
    /\ results = [s \in Subs |-> <<>>]
    /\ hout = [s \in Subs |-> "none"]
    /\ hfiles = [s \in Subs |-> {}]
    /\ hinputs = [s \in Subs |-> {}]
    /\ attempt = [s \in Subs |-> NoAttempt]
    /\ sacq = [s \in Subs |-> 0]
    /\ srel = [s \in Subs |-> 0]
    /\ everRunning = [s \in Subs |-> FALSE]
    /\ termWrites = [s \in Subs |-> 0]
    /\ exitPath = [s \in Subs |-> "none"]
    /\ ContestVarsInit
    /\ BurstVarsInit
    /\ ctl = NewSemaphore(1)
    /\ SemVarsInit
    /\ compilationSemaphore = NewSemaphore(1)
    /\ CompVarsInit

HarnessNext ==
    \E s \in Subs :
        \/ SubmitRespond(s)
        \/ WorkerFind(s)
        \/ WorkerClaim(s)
        \/ HarnessMkdir(s)
        \/ HarnessSubdir(s)
        \/ HarnessWrite(s)
        \/ HarnessCompile(s)
        \/ HarnessInput(s)
        \/ HarnessRun(s)
        \/ HarnessCleanup(s)
        \/ WorkerPersist(s)
        \/ WorkerStatsLoad(s)
        \/ WorkerStatsSave(s)
        \/ WorkerCatchFind(s)
        \/ WorkerCatchSave(s)

HarnessSpec == HarnessInit /\ [][HarnessNext]_vars

\* ------------------------------------------- the verdict, as a computation
\* the state of everything but the computation under test
IdleInit ==
    /\ rmFaults = 0
    /\ ctl = NewSemaphore(1)
    /\ SemVarsInit
    /\ compilationSemaphore = NewSemaphore(1)
    /\ CompVarsInit
    /\ submissionSemaphore = NewSemaphore(1)
    /\ JudgeVarsInit
    /\ ContestVarsInit
    /\ BurstVarsInit

\* the largest number of test cases of the results lists under test
MaxResults == 3

\* the results the run steps and the compile step of runTestCases make: a
\* passed or failed run, a compilation error, a runtime error, a timeout
ResultKinds ==
    {Result("passed", "none", "stderr", ""),
     Result("failed", "none", "stderr", ""),
     Result("error", "compilation", "diagnostic", "diagnostic"),
     Result("error", "runtime", "stderr", ""),
     Result("timeout", "timeout", "stderr", "")}

\* every non-empty list of results, one per test case
ResultLists == UNION {[1..n -> ResultKinds] : n \in 1..MaxResults}

VerdictInit ==
    /\ arg \in ResultLists
    /\ ret = <<>>
    /\ IdleInit

\* processSubmissionAsync computes finalStatus from the results;
\* testCases.length is the length of the results
ComputeFinalStatus ==
    /\ ret = <<>>
    /\ ret' = <<FinalStatus(arg, Len(arg))>>
    /\ UNCHANGED <<arg, semVars, compVars, judgeVars, contestVars, burstVars, rmFaults>>

VerdictNext == ComputeFinalStatus

VerdictSpec == VerdictInit /\ [][VerdictNext]_vars

\* --------------------------------------------- the score, as a computation
\* the largest number of test cases and the largest points of a contest
\* problem under test
MaxTotal == 10
MaxPoints == 100

\* passedCount, testCases.length and maxScore: 100 for a standalone problem,
\* the points of the contest problem otherwise
ScoreArgs ==
    {a \in [passed : 0..MaxTotal, total : 1..MaxTotal, maxScore : 0..MaxPoints] :
        a.passed <= a.total}

ScoreInit ==
    /\ arg \in ScoreArgs
    /\ ret = <<>>
    /\ IdleInit

\* processSubmissionAsync computes score
ComputeScore ==
    /\ ret = <<>>
    /\ ret' = <<Score(arg.passed, arg.total, arg.maxScore)>>
    /\ UNCHANGED <<arg, semVars, compVars, judgeVars, contestVars, burstVars, rmFaults>>

ScoreNext == ComputeScore

ScoreSpec == ScoreInit /\ [][ScoreNext]_vars

\* --------------------------- updateStatistics for a contest submission
\* the terminal submissions of a contest problem as far as updateStatistics
\* tells them apart: accepted with all the points, or not accepted with fewer
ContestSubmissions ==
    {[status |-> "accepted", score |-> ContestPoints]} \cup
    {[status |-> "wrong_answer", score |-> k] : k \in 0..(ContestPoints - 1)}

\* the object updateStatistics makes when the participant has no record of
\* the problem
NewProblemAttempt == [attempts |-> 0, solved |-> FALSE, score |-> 0]

\* the score recorded for the problem after a submission with this score:
\* raised only when the submission's score is greater
BestScore(recorded, score) == IF score > recorded THEN score ELSE recorded

\* the participant after the update. problemAttempt is the stored record
\* when the participant has one; otherwise it is a new plain object of which
\* problemsAttempted.push() stores a copy (Mongoose casts what is pushed to
\* a new subdocument), so that the statements after the push change the
\* plain object and not the stored record, while participant.score is
\* changed in the stored participant.
UpdateParticipant(p, sub) ==
    LET found   == p.problemsAttempted # <<>>
        before  == IF found THEN p.problemsAttempted[1] ELSE NewProblemAttempt
        best    == BestScore(before.score, sub.score)
        improved == best # before.score
        after   == [attempts |-> before.attempts + 1,
                    solved |-> IF improved /\ sub.status = "accepted"
                               THEN TRUE ELSE before.solved,
                    score |-> best]
    IN  [submissions |-> p.submissions + 1,
         score |-> IF improved THEN p.score - before.score + sub.score ELSE p.score,
         problemsAttempted |-> IF found THEN <<after>> ELSE <<NewProblemAttempt>>]

\* the Contest document after the statements of updateStatistics, before
\* contest.save()
UpdateContest(doc, sub) ==
    LET won == IF sub.status = "accepted" THEN 1 ELSE 0
    IN  [analytics |-> [totalSubmissions |-> doc.analytics.totalSubmissions + 1,
                        successfulSubmissions |->
                            doc.analytics.successfulSubmissions + won],
         participants |-> [i \in DOMAIN doc.participants |->
                             UpdateParticipant(doc.participants[i], sub)],
         problem |-> [attemptCount |-> doc.problem.attemptCount + 1,
                      solvedCount |-> doc.problem.solvedCount + won]]

ContestInit ==
    /\ arg = <<>>
    /\ ret = <<>>
    /\ rmFaults = 0
    /\ ctl = NewSemaphore(1)
    /\ SemVarsInit
    /\ compilationSemaphore = NewSemaphore(1)
    /\ CompVarsInit
    /\ submissionSemaphore = NewSemaphore(1)
    /\ JudgeVarsInit
    /\ contest \in {NewContest(<<>>), NewContest(<<NewParticipant>>)}
    /\ upc = [u \in Updates |-> "new"]
    /\ usub = [u \in Updates |-> NoSubmission]
    /\ uloc = [u \in Updates |-> NewContest(<<>>)]
    /\ applied = <<>>
    /\ BurstVarsInit

\* updateStatistics(submission, contestId) is called for a terminal
\* submission, one call after another (the judging controller with N = 1):
\* after Contest.findById the load has thrown (logged, nothing is updated)
\* or the loaded document is changed and contest.save() is called
StatisticsLoad(u) ==
    /\ upc[u] = "new"
    /\ \A v \in Updates : upc[v] # "loaded"
    /\ \E sub \in ContestSubmissions, loaded \in BOOLEAN :
         /\ usub' = [usub EXCEPT ![u] = sub]
         /\ IF loaded
            THEN /\ uloc' = [uloc EXCEPT ![u] = UpdateContest(contest, sub)]
                 /\ upc' = [upc EXCEPT ![u] = "loaded"]
            ELSE /\ upc' = [upc EXCEPT ![u] = "done"]
                 /\ UNCHANGED uloc
    /\ UNCHANGED <<contest, applied, semVars, compVars, judgeVars, calcVars, burstVars, rmFaults>>

\* after contest.save(): the changed document is written, or the save has
\* thrown, which is logged
StatisticsSave(u) ==
    /\ upc[u] = "loaded"
    /\ \E saved \in BOOLEAN :
         IF saved
         THEN /\ contest' = uloc[u]
              /\ applied' = Append(applied, usub[u])
         ELSE UNCHANGED <<contest, applied>>
    /\ upc' = [upc EXCEPT ![u] = "done"]
    /\ uloc' = [uloc EXCEPT ![u] = NewContest(<<>>)]
    /\ UNCHANGED <<usub, semVars, compVars, judgeVars, calcVars, burstVars, rmFaults>>

ContestNext == \E u \in Updates : StatisticsLoad(u) \/ StatisticsSave(u)

ContestSpec == ContestInit /\ [][ContestNext]_vars

\* ======================================================== BurstSpec
\* A burst of requests to /compile from one client (load_test.sh) through the
\* middleware app.js mounts in front of the router: the rate limiter, then
\* the request queue, then the handler with its compilation semaphore.

\* load_test.sh: TOTAL_REQUESTS, all started at once
Burst == 100
\* express-rate-limit: max hits of one client in a window
RateMax == 50
\* express-queue: requests handled at a time, and requests kept waiting
ActiveLimit == 10
QueuedLimit == 50
\* new Semaphore(20) of the compile router
CompileSlots == 20
\* the windows of the rate limiter that may end while the burst lasts
\* (windowMs is a minute, the burst takes seconds)
MaxResets == 1

BurstInit ==
    /\ arg = <<>>
    /\ ret = <<>>
    /\ rmFaults = 0
    /\ ctl = NewSemaphore(1)
    /\ SemVarsInit
    /\ compilationSemaphore = NewSemaphore(1)
    /\ CompVarsInit
    /\ submissionSemaphore = NewSemaphore(1)
    /\ JudgeVarsInit
    /\ ContestVarsInit
    /\ BurstVarsInit

\* the frame of the steps of a burst
burstFrame == <<semVars, compVars, judgeVars, calcVars, contestVars, rmFaults>>

\* a request of the burst arrives: compileLimit counts the hit and answers
\* 429 beyond max; compileQueue lets it through when fewer than activeLimit
\* requests are being handled, keeps it waiting when fewer than queuedLimit
\* are waiting, and refuses it otherwise
BurstArrive ==
    /\ edge.arrived < Burst
    /\ edge' = IF edge.hits + 1 > RateMax
               THEN [edge EXCEPT !.arrived = @ + 1, !.hits = @ + 1, !.limited = @ + 1]
               ELSE IF edge.active < ActiveLimit
               THEN [edge EXCEPT !.arrived = @ + 1, !.hits = @ + 1, !.active = @ + 1]
               ELSE IF edge.queued < QueuedLimit
               THEN [edge EXCEPT !.arrived = @ + 1, !.hits = @ + 1, !.queued = @ + 1]
               ELSE [edge EXCEPT !.arrived = @ + 1, !.hits = @ + 1, !.refused = @ + 1]
    /\ UNCHANGED burstFrame

\* the window of the rate limiter ends: the hits are forgotten
BurstWindowEnds ==
    /\ edge.resets < MaxResets
    /\ edge' = [edge EXCEPT !.hits = 0, !.resets = @ + 1]
    /\ UNCHANGED burstFrame

\* the handlers that are waiting in acquire() of the compilation semaphore:
\* those let through by the queue beyond the slots of the semaphore
BurstWaiting == IF edge.active > CompileSlots THEN edge.active - CompileSlots ELSE 0

\* the handler of a request that was let through and holds a slot of the
\* compilation semaphore answers and releases the slot; the queue lets the
\* next waiting request through
BurstRespond ==
    /\ edge.active - BurstWaiting > 0
    /\ edge' = IF edge.queued > 0
               THEN [edge EXCEPT !.ok = @ + 1, !.queued = @ - 1]
               ELSE [edge EXCEPT !.ok = @ + 1, !.active = @ - 1]
    /\ UNCHANGED burstFrame

BurstNext == BurstArrive \/ BurstWindowEnds \/ BurstRespond

BurstSpec == BurstInit /\ [][BurstNext]_vars

\* ========================================================= JavaSpec
\* How the two runners write a Java source, as a computation on the text.
\* A source text is a sequence of tokens separated by white space: the
\* keywords public and class, an identifier, a brace, or a comment (which
\* may itself contain the words of a class declaration).

\* the longest source text under test, in tokens
MaxTokens == 3

JavaTokens == {"public", "class", "Foo", "{", "comment"}

\* the handlers refuse an empty text
JavaSources == UNION {[1..n -> JavaTokens] : n \in 1..MaxTokens}

\* \w+ matches a keyword or an identifier, not a brace
IsWord(tk) == tk \in {"public", "class", "Foo", "Main", "main"}

\* .replace of block and line comments by nothing
StripComments(code) == SelectSeq(code, LAMBDA tk : tk # "comment")

\* the places of a match of /public\s+class\s+(\w+)/ and of
\* /(?:^|\s)class\s+(\w+)/
PublicClassAt(c) ==
    {i \in 1..Len(c) : i + 2 <= Len(c) /\ c[i] = "public" /\ c[i + 1] = "class"
                                       /\ IsWord(c[i + 2])}
AnyClassAt(c) ==
    {i \in 1..Len(c) : i + 1 <= Len(c) /\ c[i] = "class" /\ IsWord(c[i + 1])}

\* match() returns the leftmost match
Leftmost(S) == CHOOSE i \in S : \A j \in S : i <= j

\* no class declaration was found
NoClass == "null"

\* extractJavaClassName(code) of the judging runner
extractJavaClassName(code) ==
    LET codeWithoutComments == StripComments(code)
    IN  IF PublicClassAt(codeWithoutComments) # {}
        THEN codeWithoutComments[Leftmost(PublicClassAt(codeWithoutComments)) + 2]
        ELSE IF AnyClassAt(codeWithoutComments) # {}
        THEN codeWithoutComments[Leftmost(AnyClassAt(codeWithoutComments)) + 1]
        ELSE NoClass

\* extractClassName(javaCode) of the /compile runner
extractClassName(javaCode) ==
    LET codeWithoutComments == StripComments(javaCode)
    IN  IF PublicClassAt(codeWithoutComments) # {}
        THEN codeWithoutComments[Leftmost(PublicClassAt(codeWithoutComments)) + 2]
        ELSE IF AnyClassAt(codeWithoutComments) # {}
        THEN codeWithoutComments[Leftmost(AnyClassAt(codeWithoutComments)) + 1]
        ELSE NoClass

\* public class Main { public static void main(String[] args) { ${code} } }
MainWrapper(code) ==
    <<"public", "class", "Main", "{", "main", "{">> \o code \o <<"}", "}">>

\* the file a runner writes and the class it runs
JavaFile(className, source) == [className |-> className, source |-> source]

\* router.post('/compile'), case 'java': the source as it is under the name
\* of its class, or the wrapper under Main
CompileJava(code) ==
    LET extractedClassName == extractClassName(code)
    IN  IF extractedClassName # NoClass
        THEN JavaFile(extractedClassName, code)
        ELSE JavaFile("Main", MainWrapper(code))

\* runTestCases, case 'java' and fs.writeFile(filename, code): the source as
\* it is, under the name of its class or under Main
JudgeJava(code) ==
    LET className == IF extractJavaClassName(code) # NoClass
                     THEN extractJavaClassName(code) ELSE "Main"
    IN  JavaFile(className, code)

JavaInit ==
    /\ arg \in [runner : {"compile", "judge"}, code : JavaSources]
    /\ ret = <<>>
    /\ IdleInit

\* the runner writes the source file
WriteJavaSource ==
    /\ ret = <<>>
    /\ ret' = <<IF arg.runner = "compile" THEN CompileJava(arg.code)
                                          ELSE JudgeJava(arg.code)>>
    /\ UNCHANGED <<arg, semVars, compVars, judgeVars, contestVars, burstVars, rmFaults>>

JavaNext == WriteJavaSource

JavaSpec == JavaInit /\ [][JavaNext]_vars

\* ========================================================= TimeSpec
\* The executionTime of a judged submission, as a computation on the
\* durations of the steps of one evaluation, in milliseconds.

\* the longest step and the largest number of test cases under test
MaxMs == 2
MaxTimed == 2

Durations == 0..MaxMs

\* the time of the compile step (0 for a language without one), the time of
\* each test case between its two Date.now() calls, and the time runTestCases
\* spends on all the rest: mkdir, writing the source, the cleanup
Evaluations ==
    [compile : Durations,
     cases : UNION {[1..n -> Durations] : n \in 1..MaxTimed},
     bookkeeping : Durations]

RECURSIVE SumTimes(_)
SumTimes(times) ==
    IF times = <<>> THEN 0 ELSE times[1] + SumTimes(Tail(times))

\* totalTime = Date.now() - startTime around the call of runTestCases
TotalTime(e) == e.compile + e.bookkeeping + SumTimes(e.cases)

TimeInit ==
    /\ arg \in Evaluations
    /\ ret = <<>>
    /\ IdleInit

\* processSubmissionAsync times runTestCases and records executionTime =
\* totalTime next to the executionTime of each test case result
RecordExecutionTime ==
    /\ ret = <<>>
    /\ ret' = <<[executionTime |-> TotalTime(arg), testCaseResults |-> arg.cases]>>
    /\ UNCHANGED <<arg, semVars, compVars, judgeVars, contestVars, burstVars, rmFaults>>

TimeNext == RecordExecutionTime

TimeSpec == TimeInit /\ [][TimeNext]_vars

\* ------------------------------------------------------------- claims
Holders == {c \in Callers : cpc[c] = "holding"}

\* C1: admission bound - the number of callers that have returned from
\* acquire() and have not yet called release() never exceeds the maximum N
\* of the controller, for every N in 1..MaxN and every interleaving.
C1_AdmissionBound ==
    /\ Cardinality(Holders) <= ctl.max
    /\ ctl.current = Cardinality({c \in Callers : cpc[c] \in {"granted", "holding"}})
    /\ ctl.current <= ctl.max

\* all slots are held and a caller waits
C1_Witness ==
    /\ Cardinality(Holders) = ctl.max
    /\ Len(ctl.queue) > 0

\* C2: FIFO grant order - a caller that waited is granted a slot only when it
\* is the longest-waiting caller, and a caller is granted a slot at once only
\* when nobody is waiting (no slot-jumping).
C2_FifoGrant ==
    [][\A c \in Callers :
          (cpc[c] \in {"idle", "waiting"} /\ cpc'[c] = "granted") =>
              IF cpc[c] = "waiting"
              THEN arrivals # <<>> /\ c = Head(arrivals)
              ELSE arrivals = <<>>]_vars

\* a waiter has been handed a slot while a later arrival is still waiting
C2_Witness ==
    \E c \in Callers :
        /\ viaQueue[c]
        /\ cpc[c] = "granted"
        /\ Len(arrivals) > 0

\* C3: no starvation - when every holder eventually releases, every call to
\* acquire() eventually returns.
C3_NoStarvation ==
    \A c \in Callers : (cpc[c] \in {"waiting", "granted"}) ~> (cpc[c] = "holding")

\* a caller that had to wait has returned from acquire()
C3_Witness ==
    \E c \in Callers : viaQueue[c] /\ cpc[c] = "holding"

\* C5: the /compile handler releases the compilation slot exactly once for
\* each acquire on every exit path: a request that has left the handler has
\* released once, a request still in it has not released, and the controller
\* counts exactly the requests that hold a slot.
C5_CompileReleasesOnce ==
    /\ \A r \in Requests :
         /\ racq[r] <= 1
         /\ rrel[r] = (IF rpc[r] = "done" THEN 1 ELSE 0)
         /\ rpc[r] \notin {"new"} => racq[r] = 1
         /\ (rres[r] # 0) = (rpc[r] = "done")
    /\ compilationSemaphore.current =
         Cardinality({r \in Requests : racq[r] = 1 /\ rrel[r] = 0 /\ rpc[r] # "queued"})

\* every exit path has been taken: each response status has been sent, and
\* each request has released its slot
C5_Witness ==
    /\ \A r \in Requests : rpc[r] = "done" /\ rrel[r] = 1
    /\ \E r \in Requests : rres[r] \in {400, 500, 408}
    /\ \E r \in Requests : rres[r] = 200

\* ------------------------------------------------ claims on judging
InFlight(s) == wpc[s] \notin {"none", "waiting", "done"}

\* C4: processSubmissionAsync releases the judging slot exactly once for each
\* acquire on every exit path: a worker that has ended has released once, a
\* worker that has not ended has not released, and the controller counts
\* exactly the workers that hold a slot.
C4_WorkerReleasesOnce ==
    /\ \A s \in Subs :
         /\ sacq[s] = (IF wpc[s] = "none" THEN 0 ELSE 1)
         /\ srel[s] = (IF wpc[s] = "done" THEN 1 ELSE 0)
         /\ (exitPath[s] # "none") = (wpc[s] = "done")
    /\ submissionSemaphore.current = Cardinality({s \in Subs : InFlight(s)})

\* one worker has left by the early return for a missing record, another
\* after the fallback write of the catch block failed; both have released
C4_Witness ==
    /\ \E s \in Subs : exitPath[s] = "not_found" /\ srel[s] = 1
    /\ \E s \in Subs : exitPath[s] = "fallback_failed" /\ srel[s] = 1

\* the steps of the persisted status that the claimed lifecycle allows
\* (the cascade delete of routes/problems.js removes a record at any time)
ClaimedStep(a, b) ==
    \/ a = b
    \/ b = "absent"
    \/ a = "absent" /\ b = "pending"
    \/ a = "pending" /\ b = "running"
    \/ a = "running" /\ b \in TerminalStatuses

\* the steps the code takes besides: runtime_error written by the fallback
\* of POST /submit (the first save failed) or by the catch block of a worker
\* that failed before running was persisted
FallbackStep(a, b) == a \in {"absent", "pending"} /\ b = "runtime_error"

\* C6 as claimed: the persisted status changes only along
\* pending -> running -> one terminal status.
C6_ClaimedLifecycle ==
    [][\A s \in Subs : ClaimedStep(db[s].status, db'[s].status)]_vars

\* C6, amended: the persisted status changes only along pending -> running ->
\* one terminal status, or from not yet running straight to runtime_error;
\* every other terminal status is reached from running, and the status never
\* moves back to pending or running.
C6_Lifecycle ==
    [][\A s \in Subs :
          \/ ClaimedStep(db[s].status, db'[s].status)
          \/ FallbackStep(db[s].status, db'[s].status)]_vars

\* a record that is runtime_error and has never been running
C6_Witness ==
    \E s \in Subs : db[s].status = "runtime_error" /\ ~everRunning[s] /\ wpc[s] = "done"

\* C7: a terminal status is absorbing - once the persisted status is
\* terminal, no step of submit, processSubmissionAsync or updateStatistics
\* changes the record (only the cascade delete removes it), and a terminal
\* status is written at most once, also when the statistics update fails.
C7_TerminalAbsorbing ==
    [][\A s \in Subs :
          /\ db[s].status \in TerminalStatuses => db'[s] \in {db[s], Absent}
          /\ termWrites'[s] <= 1]_vars

\* the statistics update failed after a verdict was saved, the worker has
\* ended and the verdict stands
C7_Witness ==
    \E s \in Subs :
        /\ exitPath[s] = "statistics_failed"
        /\ db[s].status \in TerminalStatuses \ {"runtime_error"}

\* C8 as claimed: a submission that became running is not left in running
\* when its worker has ended.
C8_NeverStuckRunning ==
    \A s \in Subs : wpc[s] = "done" => db[s].status # "running"

\* C9: the acknowledgement of POST /submit does not wait for judging - the
\* worker has not called acquire() and the record is not running before the
\* 202 acknowledgement with status pending is sent, the acknowledgement
\* never carries another status, and sending it is possible whatever the
\* state of the judging controller.
C9_AckBeforeJudging ==
    \A s \in Subs :
        /\ (wpc[s] # "none" \/ everRunning[s]) => ack[s] = [code |-> 202, status |-> "pending", error |-> "none"]
        /\ ack[s].code = 202 => ack[s].status = "pending"
        /\ hpc[s] = "respond" => ENABLED SubmitRespond(s)

\* a submission is acknowledged while all slots are held and its worker is
\* queued
C9_Witness ==
    \E s \in Subs :
        /\ ack[s].code = 202
        /\ wpc[s] = "waiting"
        /\ submissionSemaphore.current = submissionSemaphore.max
        /\ db[s].status = "pending"

\* C10 as claimed: the number of records whose persisted status is running
\* never exceeds the maximum of the judging controller.
C10_RunningBound ==
    Cardinality({s \in Subs : db[s].status = "running"}) <= submissionSemaphore.max

\* ------------------------------------------ claims on the judging attempt
\* runTestCases has ended for the worker of s (returned or thrown)
AttemptEnded(s) ==
    wpc[s] \in {"persist", "stats_load", "stats_save", "catch", "catch_save", "done"}

\* the worker of s has ended after it saved a verdict, and the record is there
VerdictStands(s) ==
    /\ exitPath[s] \in {"completed", "statistics_failed"}
    /\ db[s] # Absent

\* C11 as claimed: result cardinality - a submission that reached a terminal
\* status through judging (its compile step failed or a run step was made)
\* has as many testCaseResults as the problem has test cases, whatever the
\* outcomes of the steps were. The code is given the allowance that the
\* database did not refuse the save of a verdict.
C11_ResultCardinality ==
    \A s \in Subs :
        (/\ wpc[s] = "done"
         /\ db[s].status \in TerminalStatuses
         /\ (attempt[s].compile = "failed" \/ attempt[s].runs # <<>>)
         /\ attempt[s].verdict # "refused")
        => Len(db[s].testCaseResults) = NumTestCases

C15_CompilationOutput ==
    \A s \in Subs :
        (db[s].compilationOutput # "") = (db[s].status = "compilation_error")

\* one record is compilation_error with the compiler's text, another has a
\* verdict of a submission that compiled and has no compilationOutput
C15_Witness ==
    /\ \E s \in Subs :
         db[s].status = "compilation_error" /\ db[s].compilationOutput = "diagnostic"
    /\ \E s \in Subs :
         /\ db[s].status \in {"accepted", "wrong_answer"}
         /\ attempt[s].compile = "ok"
         /\ db[s].compilationOutput = ""

\* C16 as claimed: on a compile failure the compiler's text is stored once,
\* in compilationOutput, and not in the errorMessage of a per-test-case
\* result.
C16_DiagnosticOnce ==
    \A s \in Subs :
        db[s].compilationOutput = "diagnostic" =>
            \A i \in DOMAIN db[s].testCaseResults :
                db[s].testCaseResults[i].errorMessage # "diagnostic"

\* C17 as claimed: timeout enforcement - when runTestCases leaves its try
\* block, every run step that was killed for exceeding the run budget has
\* produced a result with status timeout for its test case.
C17_TimeoutResult ==
    \A s \in Subs :
        wpc[s] = "h_cleanup" =>
            \A i \in DOMAIN attempt[s].runs :
                attempt[s].runs[i] = "timeout" =>
                    /\ Len(results[s]) >= i
                    /\ results[s][i].status = "timeout"

\* C18 as claimed: a submission with no compile error and no runtime error
\* and with a timed-out run step ends with status time_limit_exceeded.
C18_TimeLimitVerdict ==
    \A s \in Subs :
        (/\ wpc[s] = "done"
         /\ db[s].status \in TerminalStatuses
         /\ attempt[s].compile # "failed"
         /\ \E i \in DOMAIN attempt[s].runs : attempt[s].runs[i] = "timeout"
         /\ \A i \in DOMAIN attempt[s].runs : attempt[s].runs[i] # "runtime")
        => db[s].status = "time_limit_exceeded"

\* C19 as claimed: cleanup of a judging attempt - when runTestCases has
\* ended, on whichever path, and the filesystem has refused no removal
\* (removal is best effort), the source file, the executable, the java
\* subdirectory and every input file of the attempt are gone.
C19_AttemptCleanup ==
    \A s \in Subs :
        (AttemptEnded(s) /\ rmFaults = 0) => (hfiles[s] = {} /\ hinputs[s] = {})

\* ------------------------------------------ claims on verdict and score
\* the terminal status the claimed priority gives for a list of results
ClaimedStatus(res) ==
    CASE \E i \in DOMAIN res : res[i].status = "error" /\ res[i].errorType = "compilation"
           -> "compilation_error"
      [] OTHER ->
    CASE \E i \in DOMAIN res : res[i].status = "error" /\ res[i].errorType = "runtime"
           -> "runtime_error"
      [] OTHER ->
    CASE \E i \in DOMAIN res : res[i].status = "timeout" -> "time_limit_exceeded"
      [] \A i \in DOMAIN res : res[i].status = "passed" -> "accepted"
      [] OTHER -> "wrong_answer"

\* C12: verdict priority - for every non-empty list of per-case results the
\* status processSubmissionAsync computes is compilation_error if a case is
\* a compilation error, else runtime_error if a case is a runtime error, else
\* time_limit_exceeded if a case timed out, else accepted if every case
\* passed, else wrong_answer; it is accepted exactly when every case passed.
C12_VerdictPriority ==
    ret # <<>> =>
        /\ ret[1] = ClaimedStatus(arg)
        /\ (ret[1] = "accepted") = (\A i \in DOMAIN arg : arg[i].status = "passed")

\* a list with a compilation error, a runtime error and a timeout has been
\* given compilation_error
C12_Witness ==
    /\ ret = <<"compilation_error">>
    /\ \E i \in DOMAIN arg : arg[i].errorType = "runtime"
    /\ \E i \in DOMAIN arg : arg[i].status = "timeout"

\* C13 as claimed: the score is the floor of the exact value of
\* passedTestCases / totalTestCases * maxScore, and 0 <= score <= maxScore.
C13_ScoreFormula ==
    ret # <<>> =>
        /\ ret[1] = (arg.passed * arg.maxScore) \div arg.total
        /\ 0 <= ret[1]
        /\ ret[1] <= arg.maxScore

\* ------------------------------------------ claims on the /compile workspace
\* C20 as claimed: cleanup of an interactive attempt - once the response of
\* a /compile request has been sent and its slot released, the source file,
\* the executable and the java subdirectory of the request are gone. The
\* code is given every allowance: the cleanup that the success path starts
\* without waiting has ended, and the filesystem has refused no removal.
C20_WorkspaceGone ==
    \A r \in Requests :
        (rpc[r] = "done" /\ rclean[r] # "running" /\ rmFaults = 0) => rws[r] = {}

\* C21 as claimed: the workspace of a /compile request is destroyed exactly
\* once and only after its process has ended - cleanup() is never called
\* twice, it has not been called while the command of the request is still
\* running, and a request that has left the handler without a call of
\* cleanup() has left no workspace behind.
C21_DestroyedOnce ==
    \A r \in Requests :
        /\ rrm[r] <= 1
        /\ rpc[r] = "exec" => rrm[r] = 0
        /\ (rpc[r] = "done" /\ rrm[r] = 0) => rws[r] = {}

\* ------------------------------------------ claims on contest statistics
\* the score the contest records for the participant on the problem
RecordedScore(doc) ==
    IF doc.participants[1].problemsAttempted = <<>>
    THEN 0
    ELSE doc.participants[1].problemsAttempted[1].score

\* the greatest score among submissions
MaxScore(subs) ==
    IF subs = <<>> THEN 0
    ELSE CHOOSE m \in {subs[i].score : i \in DOMAIN subs} :
             \A i \in DOMAIN subs : subs[i].score <= m

\* C22 as claimed: best-of-attempts scoring - when a statistics update of a
\* contest submission of the participant is saved, the updates being applied
\* one after another, the score recorded for the problem is the greatest
\* score among the submissions applied so far; and a submission whose score
\* does not exceed the recorded best leaves the recorded score of the problem
\* and the total score of the participant as they were.
C22_BestOfAttempts ==
    [][\A u \in Updates :
          (/\ contest.participants # <<>>
           /\ upc[u] = "loaded"
           /\ applied' # applied)
          => /\ RecordedScore(contest') = MaxScore(applied')
             /\ usub[u].score <= RecordedScore(contest) =>
                    /\ RecordedScore(contest') = RecordedScore(contest)
                    /\ contest'.participants[1].score = contest.participants[1].score]_vars

\* ---------------------------------------- claims on problem statistics
\* C23: statistics are best-effort - while updateStatistics runs for a
\* submission, whatever happens in it, the record of the submission is not
\* changed (only the cascade delete removes it) and no terminal status is
\* written again, the worker goes nowhere but on to the end, where it has
\* released its slot; and a worker whose statistics update failed has ended
\* with one release and with the record not moved to runtime_error.
C23_StatisticsBestEffort ==
    [][\A s \in Subs :
          /\ wpc[s] \in {"stats_load", "stats_save"} =>
                /\ db'[s] \in {db[s], Absent}
                /\ termWrites'[s] = termWrites[s]
                /\ wpc'[s] \in {"stats_load", "stats_save", "done"}
                /\ wpc'[s] = "done" =>
                      /\ srel'[s] = 1
                      /\ exitPath'[s] \in {"completed", "statistics_failed"}
          /\ exitPath'[s] = "statistics_failed" =>
                /\ wpc'[s] = "done"
                /\ srel'[s] = 1
                /\ db'[s].status \in (TerminalStatuses \ {"runtime_error"}) \cup {"absent"}]_vars

\* the save of the problem document failed after an accepted verdict was
\* saved: the verdict stands, the counters are as before and the slot is free
C23_Witness ==
    \E s \in Subs :
        /\ exitPath[s] = "statistics_failed"
        /\ db[s].status = "accepted"
        /\ db[s].score = StandaloneMaxScore
        /\ problem.exists
        /\ problem.totalSubmissions = 0
        /\ srel[s] = 1
        /\ submissionSemaphore.current = 0

\* the last run step of a sequence of outcomes failed
LastRunFailed(runs) == runs # <<>> /\ runs[Len(runs)] \in {"runtime", "timeout"}

\* the worker of s ended with nothing refused by the database or the
\* filesystem: it saved its verdict and the statistics, or its last run step
\* failed
Undisturbed(s) ==
    \/ exitPath[s] = "completed" /\ attempt[s].verdict = "saved"
    \/ /\ exitPath[s] = "caught"
       /\ attempt[s].verdict = "none"
       /\ LastRunFailed(attempt[s].runs)

\* C24 as claimed: every submission that reaches a terminal status is
\* applied to the problem's counters exactly once - when the submissions are
\* judged one after another (N = 1), the problem is not deleted, no worker is
\* at work and every record with a terminal status is of a worker that ended
\* undisturbed, totalSubmissions is the number of records with a terminal
\* status and successfulSubmissions the number of accepted ones.
C24_AppliedOnce ==
    (/\ submissionSemaphore.max = 1
     /\ pdel = "none"
     /\ \A s \in Subs : wpc[s] \in {"none", "done"}
     /\ \A s \in Subs : db[s].status \in TerminalStatuses => Undisturbed(s))
    => /\ problem.totalSubmissions =
            Cardinality({s \in Subs : db[s].status \in TerminalStatuses})
       /\ problem.successfulSubmissions =
            Cardinality({s \in Subs : db[s].status = "accepted"})

\* the workers that have written the counters they had read
Writers == {s \in Subs : exitPath[s] = "completed" /\ attempt[s].read # -1}

\* two workers that wrote had read the same value of totalSubmissions
SameRead == \E s, w \in Writers : s # w /\ attempt[s].read = attempt[w].read

\* C25: lost update on the shared statistics - totalSubmissions never
\* exceeds the number of workers that wrote it; it falls short of that number
\* exactly when two of them had read the same value before either wrote, and
\* that happens only when the judging controller allows at least two
\* concurrent workers.
C25_LostUpdate ==
    /\ problem.totalSubmissions <= Cardinality(Writers)
    /\ (problem.totalSubmissions < Cardinality(Writers)) = SameRead
    /\ SameRead => submissionSemaphore.max >= 2

\* two submissions of the problem have finished, both read 0 before either
\* wrote, and totalSubmissions has grown by 1 instead of 2
C25_Witness ==
    /\ submissionSemaphore.max >= 2
    /\ Cardinality(Writers) = 2
    /\ \A s \in Writers : attempt[s].read = 0
    /\ \A s \in Subs : wpc[s] = "done"
    /\ problem.totalSubmissions = 1

\* ------------------------------------------ claims on submit validation
\* the rejections the claim names
ValidationFaults == (SubmitFaults \ {"db_error"}) \cup {"no_problem"}

\* C26: validation failures are synchronous and leave no trace - a submit
\* request rejected for a missing field, an unsupported language, an unknown
\* user, problem or contest, a language not allowed in the contest, a user
\* not registered or a problem without test cases is answered 400, 403 or
\* 404 in the response, has no Submission record, no worker and no slot.
C26_RejectedNoTrace ==
    \A s \in Subs :
        ack[s].error \in ValidationFaults =>
            /\ ack[s].code \in {400, 403, 404}
            /\ ack[s].status = "none"
            /\ hpc[s] = "done"
            /\ db[s] = Absent
            /\ wpc[s] = "none"
            /\ sacq[s] = 0
            /\ termWrites[s] = 0
            /\ ~everRunning[s]

\* a request is rejected for a problem without test cases while the worker
\* of another submission holds the only slot; the slot count is one
C26_Witness ==
    \E s, w \in Subs :
        /\ ack[s].error = "no_testcases"
        /\ ack[s].code = 400
        /\ db[s] = Absent
        /\ InFlight(w)
        /\ submissionSemaphore.current = 1

\* ------------------------------------------ claims on a burst of requests
\* C27 as claimed: a burst of 100 concurrent /compile requests is fully
\* served - no request of the burst is answered 429 by the rate limiter or
\* refused by the queue, and once all have arrived and none is being handled
\* or waiting, all 100 have been answered by the handler.
C27_BurstServed ==
    /\ edge.limited = 0
    /\ edge.refused = 0
    /\ (edge.arrived = Burst /\ edge.active = 0 /\ edge.queued = 0) => edge.ok = Burst

\* ------------------------------------------ claims on the Java entry point
\* C28 as claimed: for every Java source and both runners - if a class
\* declaration is found, the source is written unchanged under the name of
\* the class; if none is found, the written source is the wrapper that
\* declares class Main with a main method whose body is the submitted text,
\* and the entry point is Main.
C28_JavaEntryPoint ==
    ret # <<>> =>
        IF extractJavaClassName(arg.code) # NoClass
        THEN ret[1] = JavaFile(extractJavaClassName(arg.code), arg.code)
        ELSE ret[1] = JavaFile("Main", MainWrapper(arg.code))

\* ------------------------------------------ claims on the execution time
\* C29 as claimed: the executionTime recorded on a judged submission is the
\* sum of the executionTime values of its test case results, not the
\* wall-clock duration of the whole evaluation.
C29_ExecutionTimeIsSum ==
    ret # <<>> => ret[1].executionTime = SumTimes(ret[1].testCaseResults)

\* ------------------------------------------ claims on processes in flight
\* the processes in flight for judging: of the workers s, s + 1, ...
RECURSIVE FlyingFrom(_)
FlyingFrom(s) == IF s > NumSubs THEN 0 ELSE attempt[s].flying + FlyingFrom(s + 1)

\* C30: no parallelism within a submission - at every instant at most one
\* process (the compile step or one run step) of a submission is in flight,
\* and only while its worker holds a slot; the test cases are started in
\* increasing index order 1, 2, ..., test case i + 1 only after the run of
\* test case i has ended and never while the compile step is in flight; so
\* the processes in flight for judging never exceed N.
C30_OneProcessInFlight ==
    /\ \A s \in Subs :
         LET a == attempt[s]
         IN  /\ a.flying \in {0, 1}
             /\ a.flying = 1 => sacq[s] = 1 /\ srel[s] = 0
             /\ \A i \in 1..Len(a.starts) : a.starts[i] = i
             /\ Len(a.starts) = Len(a.runs) + (IF wpc[s] = "h_run" THEN 1 ELSE 0)
             /\ wpc[s] = "h_run" <=> (a.flying = 1 /\ a.starts # <<>>)
             /\ wpc[s] = "h_compile" <=> (a.flying = 1 /\ a.starts = <<>>)
    /\ FlyingFrom(1) <= submissionSemaphore.max

\* with two slots, the second test case of one submission is running after
\* its first has ended, while the compile step of the other is in flight
C30_Witness ==
    \E s, w \in Subs :
        /\ submissionSemaphore.max = 2
        /\ attempt[s].starts = <<1, 2>>
        /\ Len(attempt[s].runs) = 1
        /\ attempt[s].flying = 1
        /\ wpc[w] = "h_compile"
        /\ attempt[w].flying = 1

\* ------------------------------------------ claims on the compile step
\* what the run command of a compiled language runs: the executable of c and
\* cpp, the class files in the subdirectory of java
ArtifactExists(s) ==
    /\ lang[s] = "c" => "exe" \in hfiles[s]
    /\ lang[s] = "java" => "dir" \in hfiles[s]

\* C31: the compile step (execAsync of the compile command, for the
\* languages with needsCompilation: java, c, cpp) is started at most once per
\* submission, before any run step, and has ended with success when a run
\* step starts; its artifact exists when each run step starts; its outcome
\* never changes afterwards; for the other languages no compile step is
\* started and a run step starts with none recorded.
C31_CompileOnce ==
    [][\A s \in Subs :
          LET a == attempt[s]
              b == attempt'[s]
          IN  /\ (wpc[s] # "h_compile" /\ wpc'[s] = "h_compile") =>
                    /\ NeedsCompilation(lang[s])
                    /\ a.compile = "none"
                    /\ a.starts = <<>>
              /\ (wpc[s] = "h_compile" /\ wpc'[s] # "h_compile") =>
                    /\ b.compile # "none"
                    /\ b.starts = <<>>
              /\ b.compile # a.compile => (a.compile = "none" /\ wpc[s] = "h_compile")
              /\ b.starts # a.starts =>
                    IF NeedsCompilation(lang[s])
                    THEN a.compile = "ok" /\ ArtifactExists(s)
                    ELSE a.compile = "none"]_vars

\* the second test case of a C submission is running on the executable of
\* the one compile step, and the second test case of an interpreted
\* submission is running with no compile step
C31_Witness ==
    \E s, w \in Subs :
        /\ lang[s] = "c"
        /\ attempt[s].compile = "ok"
        /\ attempt[s].starts = <<1, 2>>
        /\ wpc[s] = "h_run"
        /\ "exe" \in hfiles[s]
        /\ lang[w] = "interp"
        /\ attempt[w].compile = "none"
        /\ attempt[w].starts = <<1, 2>>

\* ------------------------------------------ claims on a failed run step
\* C32 as claimed: a run step that fails on a test case (non-zero exit,
\* output over the cap, or timeout) is recorded as the result of that case,
\* status error with errorType runtime or status timeout, and the harness
\* goes on: to the next test case when there is one, otherwise to its
\* return with a result for every test case.
C32_FailedRunRecorded ==
    [][\A s \in Subs :
          (/\ wpc[s] = "h_run"
           /\ Len(attempt'[s].runs) = Len(attempt[s].runs) + 1
           /\ LastRunFailed(attempt'[s].runs))
          => /\ Len(results'[s]) = Len(results[s]) + 1
             /\ LET r == results'[s][Len(results'[s])]
                    outcome == attempt'[s].runs[Len(attempt'[s].runs)]
                IN  IF outcome = "timeout"
                    THEN r.status = "timeout"
                    ELSE r.status = "error" /\ r.errorType = "runtime"
             /\ IF hi[s] < problem.testCases
                THEN wpc'[s] = "h_input" /\ hi'[s] = hi[s] + 1
                ELSE wpc'[s] = "h_cleanup" /\ hout'[s] = "return"]_vars

\* ------------------------------------------ claims on the semaphore state
\* C33: direct handoff - release() by a holder while callers wait removes
\* exactly the head of the wait queue, resumes that caller and no other, and
\* leaves the count of held slots as it was; release() with an empty queue
\* decreases the count by exactly one, resumes nobody and leaves the queue
\* empty.
C33_DirectHandoff ==
    [][\A c \in Callers :
          (cpc[c] = "holding" /\ cpc'[c] = "idle") =>
              IF ctl.queue # <<>>
              THEN /\ ctl'.queue = Tail(ctl.queue)
                   /\ ctl'.current = ctl.current
                   /\ cpc[Head(ctl.queue)] = "waiting"
                   /\ cpc'[Head(ctl.queue)] = "granted"
                   /\ \A d \in Callers \ {c, Head(ctl.queue)} : cpc'[d] = cpc[d]
              ELSE /\ ctl'.queue = <<>>
                   /\ ctl'.current = ctl.current - 1
                   /\ \A d \in Callers \ {c} : cpc'[d] = cpc[d]]_vars

\* a slot was handed to a waiter, which has returned from acquire(): the
\* releasing caller is idle again and all slots are still counted as held
C33_Witness ==
    \E c, d \in Callers :
        /\ viaQueue[c]
        /\ cpc[c] = "holding"
        /\ cpc[d] = "idle"
        /\ ctl.current = ctl.max
        /\ ctl.queue = <<>>

\* GET /compile/stats and the semaphore fields of GET /stats/submissions
SemaphoreStats(sem) ==
    [active |-> sem.current, queued |-> Len(sem.queue), availableSlots |-> sem.max - sem.current]

\* C34: semaphore state - current is between 0 and max and is the number of
\* callers that hold a slot (granted or returned from acquire()); the wait
\* queue holds the waiting callers, each once; a non-empty queue implies
\* current = max; so the reported availableSlots is never negative and is 0
\* whenever queued requests are reported.
C34_SemaphoreState ==
    /\ 0 <= ctl.current /\ ctl.current <= ctl.max
    /\ ctl.current = Cardinality({c \in Callers : cpc[c] \in {"granted", "holding"}})
    /\ Len(ctl.queue) = Cardinality({c \in Callers : cpc[c] = "waiting"})
    /\ \A c \in Callers : cpc[c] = "waiting" <=> \E i \in DOMAIN ctl.queue : ctl.queue[i] = c
    /\ ctl.queue # <<>> => ctl.current = ctl.max
    /\ SemaphoreStats(ctl).availableSlots >= 0
    /\ SemaphoreStats(ctl).queued > 0 => SemaphoreStats(ctl).availableSlots = 0

\* two slots, both held, and a caller in the queue: no slot is reported
\* available
C34_Witness ==
    /\ ctl.max = 2
    /\ SemaphoreStats(ctl) = [active |-> 2, queued |-> 1, availableSlots |-> 0]

\* ------------------------------------------ claims on participant totals
\* C35 as claimed: after any sequence of statistics updates applied one
\* after another to a contest whose participant started with score 0 and no
\* problem attempted, the total score of the participant is the sum of the
\* scores recorded for the problems the participant has attempted (here the
\* one problem of the contest).
C35_TotalIsSumOfRecorded ==
    contest.participants # <<>> =>
        contest.participants[1].score = RecordedScore(contest)

\* ------------------------------------ claims on the slot and the statistics
\* the workers inside updateStatistics
Updating == {s \in Subs : wpc[s] \in {"stats_load", "stats_save"}}

\* C36: the judging slot is held until the statistics update has finished -
\* a worker inside updateStatistics has acquired and not released; so with
\* N = 1 at most one worker is inside it, the counters it has read are still
\* those of the problem when it saves, no two workers that wrote had read
\* the same value, and totalSubmissions is the number of workers that wrote.
C36_SlotHeldThroughStatistics ==
    /\ \A s \in Updating : sacq[s] = 1 /\ srel[s] = 0
    /\ Cardinality(Updating) <= submissionSemaphore.max
    /\ submissionSemaphore.max = 1 =>
          /\ \A s \in Subs :
                (wpc[s] = "stats_save" /\ problem.exists) =>
                    /\ attempt[s].read = problem.totalSubmissions
                    /\ ploc[s].totalSubmissions = problem.totalSubmissions + 1
          /\ ~SameRead
          /\ problem.totalSubmissions = Cardinality(Writers)

\* with one slot both submissions have been judged and counted: the second
\* read the counter only after the first had written it
C36_Witness ==
    /\ submissionSemaphore.max = 1
    /\ Cardinality(Writers) = 2
    /\ \E s, w \in Writers : attempt[s].read = 0 /\ attempt[w].read = 1
    /\ problem.totalSubmissions = 2

\* ------------------------------------------ claims on the crash path
\* the record the catch block of processSubmissionAsync leaves: the pending
\* record with status runtime_error
CrashRecord == [Absent EXCEPT !.status = "runtime_error"]

\* C37 as claimed: crash path - a worker whose harness or result processing
\* threw has ended, and unless the record was deleted the submission has
\* status runtime_error, passedTestCases 0, score 0 and no test case
\* results, and updateStatistics was not invoked for it (it has read no
\* counter).
C37_CrashPath ==
    \A s \in Subs :
        (/\ wpc[s] = "done"
         /\ everRunning[s]
         /\ exitPath[s] \in {"caught", "fallback_failed"}
         /\ db[s] # Absent)
        => /\ db[s] = CrashRecord
           /\ attempt[s].read = -1

\* ------------------------------------------ claims on the memory verdict
\* C38: no submission judged by a worker ever has the status
\* memory_limit_exceeded - no result of runTestCases and no saved test case
\* result has status memory_exceeded, whatever the run steps do.
C38_NoMemoryVerdict ==
    \A s \in Subs :
        /\ db[s].status # "memory_limit_exceeded"
        /\ \A i \in DOMAIN results[s] : results[s][i].status # "memory_exceeded"
        /\ \A i \in DOMAIN db[s].testCaseResults :
               db[s].testCaseResults[i].status # "memory_exceeded"

\* one submission was judged wrong_answer from the results of its run steps
\* and the other ended in runtime_error after a run step that failed
C38_Witness ==
    \E s, w \in Subs :
        /\ db[s].status = "wrong_answer"
        /\ db[s].testCaseResults # <<>>
        /\ exitPath[s] = "completed"
        /\ LastRunFailed(attempt[w].runs)
        /\ db[w].status = "runtime_error"

\* ------------------------------------------ claims on /compile validation
\* C39: the /compile handler acquires before it validates - an invalid
\* request (code or lang missing, or a language the switch does not know)
\* has called acquire(); while it waits in the queue all slots are
\* held and it has no response; it leaves the queue only by being handed a
\* slot, unanswered; it is answered only while it holds the slot, and when
\* it is answered it has acquired once, releases once, and has run no
\* process and written no file.
C39_AcquireBeforeValidate ==
    [][\A r \in Requests :
          rin'[r] \in {"missing", "unsupported"} =>
              /\ racq'[r] = 1
              /\ rpc'[r] = "queued" =>
                    /\ rres'[r] = 0
                    /\ compilationSemaphore'.current = compilationSemaphore'.max
                    /\ \E i \in DOMAIN compilationSemaphore'.queue :
                          compilationSemaphore'.queue[i] = r
              /\ (rpc[r] = "queued" /\ rpc'[r] # "queued") =>
                    /\ rpc'[r] = "granted"
                    /\ rres'[r] = 0
                    /\ compilationSemaphore'.current = compilationSemaphore.current
              /\ (rres[r] = 0 /\ rres'[r] # 0) =>
                    /\ rpc[r] \in {"granted", "mkdir"}
                    /\ rrel[r] = 0
                    /\ rrel'[r] = 1
                    /\ rpc'[r] = "done"
              /\ rout'[r] = "none"
              /\ rws'[r] = {}]_vars

\* a request with missing fields waits in the queue, unanswered, while the
\* only slot is held by a request whose command is running
C39_Witness ==
    \E r, q \in Requests :
        /\ rin[r] = "missing"
        /\ rpc[r] = "queued"
        /\ rres[r] = 0
        /\ compilationSemaphore.max = 1
        /\ rpc[q] = "exec"

====
